---------------------------- MODULE Spec2Model ----------------------------
(***************************************************************************)
(* State-machine model of js-memory-leak-detector: the MemoryLeakDetector  *)
(* orchestrator (src/unnamed/part_000, exported by src/src/index.ts as     *)
(* memory-leak-detector) and its four trackers, together with the part of  *)
(* the hosting page they intercept: the global listener and timer entry    *)
(* points, the store objects and the store-tooling hook slot.              *)
(*                                                                         *)
(* One detector instance.  A function value held in a global slot is       *)
(* modelled by its identity: "native" is the platform's own function,      *)
(* "shim" the closure the tracker installed.                               *)
(***************************************************************************)
EXTENDS Integers, Sequences, FiniteSets, TLC

---------------------------------------------------------------------------
(* Bounds of the model (not program constants).                            *)

Targets == {"button", "window"}     \* EventTarget objects of the page
Kinds == {"click", "keydown"}       \* event-kind strings
Stores == {"storeA", "storeB"}      \* store objects of the page
Subscribers == {"render"}          \* listener functions passed to subscribe

NumNamed == 1          \* listener functions the page keeps a reference to: 1..NumNamed
ListenerBatch == 50    \* closures attached by one page loop
MaxAnon == 2 * ListenerBatch  \* anonymous closures per (target, kind) key
MaxTimerId == 2        \* native timer handles handed out
IntervalBatch == 21    \* repeating timers started by one page loop
MaxHandles == 2        \* store subscribe calls made by the page
RandomGrain == 2       \* distinct values of Date.now() + Math.random() per ms
MaxNow == 2            \* clock readings (ms) explored
MaxTaken == 3          \* snapshots taken in the lifecycle specifications
MaxCycles == 2          \* snapshots taken in the growth and cycle specifications
MaxTakenHist == 150    \* snapshots taken in the history specification
DetachedBatch == 101   \* element nodes removed by one page mutation
SelectorBatch == 1001  \* derivation calls counted by one page loop
MaxNodeCount == 1      \* added nodes the observer is told of
MaxStarts == 1         \* snapshots taken in the teardown and registry specifications
MaxListenerCalls == 2  \* acquire-minus-release balance of listener calls explored
MaxCalls == 1          \* single trackSelectorUsage calls per name

(* Program constants.                                                      *)
HistoryCapacity == 100        \* takeSnapshot keeps the last 100
ListenerThreshold == 50
ListenerCritical == 100
GrowthThresholdMB == 10
GrowthCriticalMB == 50
OldTimerAgeMs == 5 * 60 * 1000
OldTimerThreshold == 10
OldTimerCritical == 50
IntervalThreshold == 20
IntervalCritical == 100
DomThreshold == 10000
DomCritical == 50000
DetachedThreshold == 100
DetachedCritical == 1000
SubscriptionThreshold == 50
SubscriptionCritical == 200
OldSubscriptionAgeMs == 10 * 60 * 1000
OldSubscriptionThreshold == 10
OldSubscriptionCritical == 50
SelectorThreshold == 1000
SelectorCritical == 5000
SelectorWindowMs == 60000
MB == 1024 * 1024

---------------------------------------------------------------------------
VARIABLES
  env,            \* host facilities present: memory, mutationObserver, document, window, devtools, windowStore
  config,         \* this.config enable flags: event, timer, dom, redux
  now,            \* Date.now()
  usedHeap,       \* performance.memory.usedJSHeapSize
  domCount,       \* document.querySelectorAll('*').length
  globals,        \* the global function slots the trackers replace
  storeSubscribe, \* store.subscribe slot of each store object
  nativeTimers,   \* timers the platform has scheduled: id -> [type, callback]
  nextTimerId,    \* next handle the platform's setTimeout/setInterval returns
  handles,        \* unsubscribe functions returned to the page, in call order
  originals,      \* the trackers' saved original functions
  listeners,      \* EventListenerTracker.listeners, in Map insertion order
  timers,         \* TimerTracker.timers: id -> [type, created]
  observer,       \* DOMTracker.observer is non-null
  detachedNodes,  \* DOMTracker.detachedNodes
  nodeCount,      \* DOMTracker.nodeCount
  storeSubscriptions,     \* ReduxTracker.storeSubscriptions: id -> [subscriber, created]
  selectorCalls,          \* ReduxTracker.selectorCalls, in Map insertion order
  originalStoreSubscribe, \* ReduxTracker.originalStoreSubscribe
  storeRef,               \* ReduxTracker.storeRef
  snapshots,      \* MemoryLeakDetector.snapshots
  reportInterval, \* MemoryLeakDetector.reportInterval (0: undefined)
  isRunning,      \* MemoryLeakDetector.isRunning
  calls,          \* callback invocations of the latest cycle, in order
  lastReport,     \* the report the latest cycle returned
  threw,          \* the latest operation ended by throwing
  shimCall,       \* the page's latest call of an intercepted entry point and what it led to
  returned,       \* the caller's array (from getSnapshots()), as references to snapshot objects
  second,         \* a second detector of the page: its flags and its trackers' saved originals
  lastOp,         \* history: the operation called last
  taken,          \* history: snapshots taken since construction
  cleanedUp,      \* history: cleanup() has been called
  expected        \* history: acquires minus matched releases, per tracker

\* what no operation of this detector assigns
constVars == <<env, config, second>>
pageVars == <<now, usedHeap, domCount>>
nativeVars == <<nativeTimers, nextTimerId>>
slotVars == <<globals, storeSubscribe, originals>>
domVars == <<observer, detachedNodes, nodeCount>>
reduxVars == <<storeSubscriptions, selectorCalls, originalStoreSubscribe, storeRef, handles>>
detVars == <<snapshots, reportInterval, isRunning>>
obsVars == <<calls, lastReport, threw, shimCall>>
callerVars == <<returned>>
histVars == <<lastOp, taken, cleanedUp, expected>>
vars == <<constVars, pageVars, nativeVars, slotVars, listeners, timers, domVars,
          reduxVars, detVars, obsVars, callerVars, histVars>>

---------------------------------------------------------------------------
(* Generic helpers.                                                        *)

Min(a, b) == IF a < b THEN a ELSE b

RemoveAt(s, i) == SubSeq(s, 1, i - 1) \o SubSeq(s, i + 1, Len(s))

Restrict(f, S) == [x \in S |-> f[x]]

RECURSIVE SumOver(_, _)
SumOver(f, S) ==
  IF S = {} THEN 0
  ELSE LET x == CHOOSE y \in S : TRUE IN f[x] + SumOver(f, S \ {x})

RECURSIVE ConcatAll(_)
ConcatAll(ss) == IF ss = <<>> THEN <<>> ELSE Head(ss) \o ConcatAll(Tail(ss))

---------------------------------------------------------------------------
(* LeakSuspect values.  The description string is kept as the values it    *)
(* interpolates.                                                           *)

Suspect(type, severity, count, n, text, arg) ==
  [type |-> type, severity |-> severity, count |-> count,
   description |-> [n |-> n, text |-> text, arg |-> arg]]

---------------------------------------------------------------------------
(* EventListenerTracker.  The registry is a sequence of entries            *)
(* [target, types], one per Map key in insertion order; types maps each    *)
(* event kind present to its Set of listeners.  Listeners 1..NumNamed are  *)
(* functions the page holds a reference to, larger numbers are closures    *)
(* created inline by a page loop.                                          *)

HasTarget(reg, t) == \E i \in 1..Len(reg) : reg[i].target = t

IndexOf(reg, t) == CHOOSE i \in 1..Len(reg) : reg[i].target = t

TypesOf(reg, t) == reg[IndexOf(reg, t)].types

ListenerSet(reg, t, k) ==
  IF HasTarget(reg, t) /\ k \in DOMAIN TypesOf(reg, t) THEN TypesOf(reg, t)[k] ELSE {}

TrackAdd(reg, t, k, l) ==
  LET r1 == IF HasTarget(reg, t) THEN reg
            ELSE Append(reg, [target |-> t, types |-> [x \in {} |-> {}]])
      i  == IndexOf(r1, t)
      m1 == r1[i].types
      m2 == IF k \in DOMAIN m1 THEN m1 ELSE [x \in DOMAIN m1 \cup {k} |-> IF x = k THEN {} ELSE m1[x]]
  IN [r1 EXCEPT ![i].types = [m2 EXCEPT ![k] = @ \cup {l}]]

\* variant: a release that deletes the listener and keeps the emptied keys
TrackRemoveKeepKeys(reg, t, k, l) ==
  IF HasTarget(reg, t) /\ k \in DOMAIN TypesOf(reg, t)
  THEN [reg EXCEPT ![IndexOf(reg, t)].types[k] = @ \ {l}]
  ELSE reg

TrackRemove(reg, t, k, l) ==
  IF HasTarget(reg, t) /\ k \in DOMAIN TypesOf(reg, t)
  THEN LET i  == IndexOf(reg, t)
           m1 == [reg[i].types EXCEPT ![k] = @ \ {l}]
           m2 == IF m1[k] = {} THEN Restrict(m1, DOMAIN m1 \ {k}) ELSE m1
       IN IF DOMAIN m2 = {} THEN RemoveAt(reg, i) ELSE [reg EXCEPT ![i].types = m2]
  ELSE reg

\* variant: the largest single event kind of the target instead of the sum
LargestKind(entry) ==
  IF DOMAIN entry.types = {} THEN 0
  ELSE LET sizes == {Cardinality(entry.types[k]) : k \in DOMAIN entry.types}
       IN CHOOSE n \in sizes : \A m \in sizes : m <= n

TotalListeners(entry) ==
  SumOver([k \in DOMAIN entry.types |-> Cardinality(entry.types[k])], DOMAIN entry.types)

GetActiveListeners(reg) ==
  SumOver([i \in 1..Len(reg) |-> TotalListeners(reg[i])], 1..Len(reg))

ListenerSuspectOf(entry) ==
  IF TotalListeners(entry) > ListenerThreshold
  THEN <<Suspect("event-listener",
                 IF TotalListeners(entry) > ListenerCritical THEN "critical" ELSE "high",
                 TotalListeners(entry),
                 TotalListeners(entry), "event listeners attached to", entry.target)>>
  ELSE <<>>

ListenerDetectLeaks(reg) ==
  ConcatAll([i \in 1..Len(reg) |-> ListenerSuspectOf(reg[i])])

---------------------------------------------------------------------------
(* TimerTracker.                                                           *)

GetActiveTimers(tm) == Cardinality(DOMAIN tm)

OldTimers(tm, t) == Cardinality({id \in DOMAIN tm : t - tm[id].created > OldTimerAgeMs})

TotalIntervals(tm) == Cardinality({id \in DOMAIN tm : tm[id].type = "interval"})

\* variant: the interval rule pushed before the old-timer rule
TimerDetectLeaksIntervalFirst(tm, t) ==
  (IF TotalIntervals(tm) > IntervalThreshold
   THEN <<Suspect("timer",
                  IF TotalIntervals(tm) > IntervalCritical THEN "critical" ELSE "medium",
                  TotalIntervals(tm),
                  TotalIntervals(tm), "active intervals detected", "")>>
   ELSE <<>>)
  \o
  (IF OldTimers(tm, t) > OldTimerThreshold
   THEN <<Suspect("timer",
                  IF OldTimers(tm, t) > OldTimerCritical THEN "critical" ELSE "high",
                  OldTimers(tm, t),
                  OldTimers(tm, t), "timers running for more than 5 minutes", "")>>
   ELSE <<>>)

TimerDetectLeaks(tm, t) ==
  (IF OldTimers(tm, t) > OldTimerThreshold
   THEN <<Suspect("timer",
                  IF OldTimers(tm, t) > OldTimerCritical THEN "critical" ELSE "high",
                  OldTimers(tm, t),
                  OldTimers(tm, t), "timers running for more than 5 minutes", "")>>
   ELSE <<>>)
  \o
  (IF TotalIntervals(tm) > IntervalThreshold
   THEN <<Suspect("timer",
                  IF TotalIntervals(tm) > IntervalCritical THEN "critical" ELSE "medium",
                  TotalIntervals(tm),
                  TotalIntervals(tm), "active intervals detected", "")>>
   ELSE <<>>)

---------------------------------------------------------------------------
(* DOMTracker.                                                             *)

DomDetectLeaks(nodes, detached) ==
  (IF nodes > DomThreshold
   THEN <<Suspect("dom-reference",
                  IF nodes > DomCritical THEN "critical" ELSE "high",
                  nodes, nodes, "DOM nodes detected (potential DOM bloat)", "")>>
   ELSE <<>>)
  \o
  (IF Cardinality(detached) > DetachedThreshold
   THEN <<Suspect("detached-dom",
                  IF Cardinality(detached) > DetachedCritical THEN "critical" ELSE "medium",
                  Cardinality(detached),
                  Cardinality(detached), "detached DOM nodes found in memory", "")>>
   ELSE <<>>)

---------------------------------------------------------------------------
(* ReduxTracker.  selectorCalls is a sequence of [name, count, lastCalled] *)
(* in Map insertion order.                                                 *)

GetActiveSubscriptions(subs) == Cardinality(DOMAIN subs)

OldSubscriptions(subs, t) ==
  Cardinality({id \in DOMAIN subs : t - subs[id].created > OldSubscriptionAgeMs})

SelectorSuspectOf(stats, t) ==
  IF stats.count > SelectorThreshold /\ t - stats.lastCalled < SelectorWindowMs
  THEN <<Suspect("redux-selector",
                 IF stats.count > SelectorCritical THEN "critical" ELSE "high",
                 stats.count,
                 stats.count, "times recently (potential infinite re-render)", stats.name)>>
  ELSE <<>>

\* variant: the age rule evaluated only when the count rule has fired
ReduxDetectLeaksNested(subs, sels, t) ==
  (IF GetActiveSubscriptions(subs) > SubscriptionThreshold
   THEN <<Suspect("redux-subscription",
                  IF GetActiveSubscriptions(subs) > SubscriptionCritical THEN "critical" ELSE "high",
                  GetActiveSubscriptions(subs),
                  GetActiveSubscriptions(subs), "active Redux store subscriptions detected", "")>>
        \o
        (IF OldSubscriptions(subs, t) > OldSubscriptionThreshold
         THEN <<Suspect("redux-subscription",
                        IF OldSubscriptions(subs, t) > OldSubscriptionCritical
                        THEN "critical" ELSE "medium",
                        OldSubscriptions(subs, t),
                        OldSubscriptions(subs, t),
                        "Redux subscriptions active for more than 10 minutes", "")>>
         ELSE <<>>)
   ELSE <<>>)
  \o
  ConcatAll([i \in 1..Len(sels) |-> SelectorSuspectOf(sels[i], t)])

ReduxDetectLeaks(subs, sels, t) ==
  (IF GetActiveSubscriptions(subs) > SubscriptionThreshold
   THEN <<Suspect("redux-subscription",
                  IF GetActiveSubscriptions(subs) > SubscriptionCritical THEN "critical" ELSE "high",
                  GetActiveSubscriptions(subs),
                  GetActiveSubscriptions(subs), "active Redux store subscriptions detected", "")>>
   ELSE <<>>)
  \o
  (IF OldSubscriptions(subs, t) > OldSubscriptionThreshold
   THEN <<Suspect("redux-subscription",
                  IF OldSubscriptions(subs, t) > OldSubscriptionCritical THEN "critical" ELSE "medium",
                  OldSubscriptions(subs, t),
                  OldSubscriptions(subs, t), "Redux subscriptions active for more than 10 minutes", "")>>
   ELSE <<>>)
  \o
  ConcatAll([i \in 1..Len(sels) |-> SelectorSuspectOf(sels[i], t)])

\* variant: a call that counts but keeps the time of the first call
TrackSelectorKeepTime(sels, name, t) ==
  IF \E i \in 1..Len(sels) : sels[i].name = name
  THEN LET i == CHOOSE j \in 1..Len(sels) : sels[j].name = name
       IN [sels EXCEPT ![i] = [name |-> name, count |-> @.count + 1, lastCalled |-> @.lastCalled]]
  ELSE Append(sels, [name |-> name, count |-> 0 + 1, lastCalled |-> t])

TrackSelector(sels, name, t) ==
  IF \E i \in 1..Len(sels) : sels[i].name = name
  THEN LET i == CHOOSE j \in 1..Len(sels) : sels[j].name = name
       IN [sels EXCEPT ![i] = [name |-> name, count |-> @.count + 1, lastCalled |-> t]]
  ELSE Append(sels, [name |-> name, count |-> 0 + 1, lastCalled |-> t])

---------------------------------------------------------------------------
(* Maps (JavaScript Map objects whose iteration order no output depends    *)
(* on) are functions; set overwrites, delete of an absent key is a no-op.  *)

EmptyMap == [x \in {} |-> 0]

MapSet(f, k, v) == [x \in DOMAIN f \cup {k} |-> IF x = k THEN v ELSE f[x]]

MapDelete(f, k) == Restrict(f, DOMAIN f \ {k})

---------------------------------------------------------------------------
(* MemoryLeakDetector: snapshot, growth rule, recommendations.             *)

HeapTotalBytes == 512 * MB   \* performance.memory.totalJSHeapSize of the page

\* takeSnapshot reaches document.querySelectorAll through getDOMNodeCount;
\* without a document that is a ReferenceError.
TakeSnapshotThrows == config.dom /\ ~env.document

NewSnapshot ==
  [serial |-> taken + 1,
   timestamp |-> now,
   memory |-> [heapUsed |-> IF env.memory THEN usedHeap ELSE 0,
               heapTotal |-> IF env.memory THEN HeapTotalBytes ELSE 0,
               external |-> 0,
               arrayBuffers |-> 0],
   counts |-> [eventListeners |-> IF config.event THEN GetActiveListeners(listeners) ELSE 0,
               timers |-> IF config.timer THEN GetActiveTimers(timers) ELSE 0,
               domNodes |-> IF config.dom THEN domCount ELSE 0,
               detachedNodes |-> IF config.dom THEN Cardinality(detachedNodes) ELSE 0]]

\* variant: a history that keeps its first 100 entries
TrimHistoryOldest(hist) == SubSeq(hist, 1, Min(Len(hist), HistoryCapacity))

TrimHistory(hist) ==
  IF Len(hist) > HistoryCapacity
  THEN SubSeq(hist, Len(hist) - HistoryCapacity + 1, Len(hist))
  ELSE hist

\* variant: the new measurement written over the latest entry
TakeSnapshotOverwrite(hist) ==
  IF hist = <<>> THEN <<NewSnapshot>> ELSE [hist EXCEPT ![Len(hist)] = NewSnapshot]

TakeSnapshot(hist) == TrimHistory(Append(hist, NewSnapshot))

\* variant: Math.floor in place of Math.round
RoundMBDown(bytes) == bytes \div MB

\* Math.round(bytes / MB): nearest integer, ties upwards.
RoundMB(bytes) == (2 * bytes + MB) \div (2 * MB)

\* (bytes / MB).toFixed(2), in hundredths of a MB.
ToFixed2MB(bytes) == (bytes \div MB) * 100 + (200 * (bytes % MB) + MB) \div (2 * MB)

GrowthSuspects(hist) ==
  IF Len(hist) >= 2
  THEN LET latest == hist[Len(hist)]
           previous == hist[Len(hist) - 1]
           memoryGrowth == latest.memory.heapUsed - previous.memory.heapUsed
       IN IF memoryGrowth > GrowthThresholdMB * MB
          THEN <<Suspect("closure",
                         IF memoryGrowth > GrowthCriticalMB * MB THEN "critical" ELSE "high",
                         RoundMB(memoryGrowth),
                         ToFixed2MB(memoryGrowth), "Memory increased by (MB/100) in",
                         "reportInterval")>>
          ELSE <<>>
  ELSE <<>>

\* variant: the growth rule evaluated before the trackers
DetectLeaksGrowthFirst(hist) ==
  GrowthSuspects(hist)
  \o (IF config.event THEN ListenerDetectLeaks(listeners) ELSE <<>>)
  \o (IF config.timer THEN TimerDetectLeaks(timers, now) ELSE <<>>)
  \o (IF config.dom THEN DomDetectLeaks(domCount, detachedNodes) ELSE <<>>)
  \o (IF config.redux THEN ReduxDetectLeaks(storeSubscriptions, selectorCalls, now) ELSE <<>>)

DetectLeaks(hist) ==
  (IF config.event THEN ListenerDetectLeaks(listeners) ELSE <<>>)
  \o (IF config.timer THEN TimerDetectLeaks(timers, now) ELSE <<>>)
  \o (IF config.dom THEN DomDetectLeaks(domCount, detachedNodes) ELSE <<>>)
  \o (IF config.redux THEN ReduxDetectLeaks(storeSubscriptions, selectorCalls, now) ELSE <<>>)
  \o GrowthSuspects(hist)

Recommendation(type) ==
  CASE type = "event-listener" ->
         "Remove event listeners when components unmount or are no longer needed"
    [] type = "timer" ->
         "Clear intervals and timeouts when they are no longer needed"
    [] type = "dom-reference" ->
         "Avoid keeping references to DOM elements after they are removed"
    [] type = "detached-dom" ->
         "Check for detached DOM nodes that should be garbage collected"
    [] type = "closure" ->
         "Review closures that might be holding references to large objects"
    [] type = "redux-subscription" ->
         "Ensure Redux store subscriptions are properly unsubscribed when components unmount"
    [] type = "redux-selector" ->
         "Check for infinite re-renders caused by improperly memoized selectors"

RECURSIVE Dedup(_)
Dedup(s) ==
  IF s = <<>> THEN <<>>
  ELSE LET init == Dedup(SubSeq(s, 1, Len(s) - 1))
           last == s[Len(s)]
       IN IF \E i \in 1..Len(init) : init[i] = last THEN init ELSE Append(init, last)

\* variant: the pushed strings returned without the Set round trip
GenerateRecommendationsPerSuspect(suspects) ==
  [i \in 1..Len(suspects) |-> Recommendation(suspects[i].type)]

GenerateRecommendations(suspects) ==
  Dedup([i \in 1..Len(suspects) |-> Recommendation(suspects[i].type)])

\* The body of generateReport(): snapshot, detect, recommend, notify.
\* lastReport holds the returned report (none if the call threw).
ReportBody ==
  IF TakeSnapshotThrows
  THEN /\ threw' = TRUE
       /\ calls' = <<>>
       /\ lastReport' = <<>>
       /\ shimCall' = <<>>
       /\ UNCHANGED <<snapshots, taken>>
  ELSE LET hist == TakeSnapshot(snapshots)
           snapshot == hist[Len(hist)]
           suspects == DetectLeaks(hist)
           report == [timestamp |-> snapshot.timestamp,
                      heapUsed |-> snapshot.memory.heapUsed,
                      heapTotal |-> snapshot.memory.heapTotal,
                      external |-> snapshot.memory.external,
                      arrayBuffers |-> snapshot.memory.arrayBuffers,
                      leakSuspects |-> suspects,
                      recommendations |-> GenerateRecommendations(suspects)]
       IN /\ snapshots' = hist
          /\ taken' = taken + 1
          /\ calls' = [i \in 1..Len(suspects) |-> [callback |-> "onLeak", arg |-> suspects[i]]]
                      \o <<[callback |-> "onReport", arg |-> report]>>
          /\ lastReport' = <<report>>
          /\ threw' = FALSE
          /\ shimCall' = <<>>

\* An operation that invokes no callback, returns no report and does not throw.
Quiet == calls' = <<>> /\ lastReport' = <<>> /\ threw' = FALSE

NoOutput == Quiet /\ shimCall' = <<>>

\* A value passed back by a call: a timer id, an unsubscribe function (the
\* store's own or the tracker's wrapper around it), or undefined.
Value(kind, id) == [kind |-> kind, id |-> id]

Undefined == Value("undefined", 0)

\* One invocation of a platform function: orig.call(receiver, ...args).
Invocation(op, receiver, args) == [op |-> op, receiver |-> receiver, args |-> args]

\* The page called entry point op on receiver with args; the function in the
\* slot (fn) invoked the platform functions in underlying, the last of which
\* gave result, and passed answer back to the page.
Forwarded(op, receiver, args, fn, underlying, result, answer) ==
  <<[op |-> op, receiver |-> receiver, args |-> args, shim |-> (fn = "shim"),
     underlying |-> underlying, result |-> result, returned |-> answer]>>

\* variant: timer shims that pass the caller's receiver on
CallerReceiver(fn, receiver) == receiver

\* The receiver the timer shims hand to the original: .call(globalThis, ...);
\* the platform's own function is entered with the caller's receiver.
TimerReceiver(fn, receiver) == IF fn = "shim" THEN "globalThis" ELSE receiver

---------------------------------------------------------------------------
(* The timer entry points.  A call goes to whatever function the global    *)
(* slot holds: the shim does its bookkeeping around the saved original,    *)
(* which with one detector is the platform's function.                     *)

\* timers after n calls of the installed setTimeout/setInterval returned ids
TimersAfterSet(tm, fn, ids, type, t) ==
  IF fn = "shim"
  THEN [x \in DOMAIN tm \cup ids |-> IF x \in ids THEN [type |-> type, created |-> t] ELSE tm[x]]
  ELSE tm

\* timers after the installed clearTimeout/clearInterval was called with id
TimersAfterClear(tm, fn, id) ==
  IF fn = "shim" /\ id # 0 THEN MapDelete(tm, id) ELSE tm

NativeAfterSet(nt, ids, type, callback) ==
  [x \in DOMAIN nt \cup ids |-> IF x \in ids THEN [type |-> type, callback |-> callback] ELSE nt[x]]

NativeAfterClear(nt, id) == MapDelete(nt, id)

\* history: a release through the shim that matched a live handle
MatchedTimerRelease(fn, id) == fn = "shim" /\ id # 0 /\ id \in DOMAIN timers

---------------------------------------------------------------------------
(* MemoryLeakDetector lifecycle.                                           *)

\* variant: start() without its isRunning guard
StartNeverNoop == FALSE

StartIsNoop == isRunning

\* variant: start() without its initial snapshot
StartHistoryKept == snapshots

\* the history start() leaves when it is not a no-op
StartHistory == TakeSnapshot(snapshots)

Start ==
  /\ lastOp' = "start"
  /\ IF StartIsNoop
     THEN /\ NoOutput
          /\ UNCHANGED <<nativeVars, timers, detVars, taken, expected>>
     ELSE IF TakeSnapshotThrows
     THEN /\ isRunning' = TRUE
          /\ threw' = TRUE
          /\ calls' = <<>>
          /\ lastReport' = <<>>
          /\ shimCall' = <<>>
          /\ UNCHANGED <<nativeVars, timers, snapshots, reportInterval, taken, expected>>
     ELSE /\ nextTimerId <= MaxTimerId
          /\ isRunning' = TRUE
          /\ snapshots' = StartHistory
          /\ taken' = taken + 1
          /\ nativeTimers' = NativeAfterSet(nativeTimers, {nextTimerId}, "interval", "cycle")
          /\ nextTimerId' = nextTimerId + 1
          /\ timers' = TimersAfterSet(timers, globals.setInterval, {nextTimerId}, "interval", now)
          /\ expected' = [expected EXCEPT !.timer =
                            IF globals.setInterval = "shim" THEN @ + 1 ELSE @]
          /\ reportInterval' = nextTimerId
          /\ NoOutput
  /\ UNCHANGED <<constVars, returned, pageVars, slotVars, listeners, domVars, reduxVars, cleanedUp>>

StopIsNoop == ~isRunning

\* the state stop() leaves, as values
StopRunning == IF StopIsNoop THEN isRunning ELSE FALSE

StopClears == ~StopIsNoop /\ reportInterval # 0

StopReportInterval == IF StopClears THEN 0 ELSE reportInterval

\* variant: stop() that leaves its interval scheduled
StopNativeKept == nativeTimers

StopNative == IF StopClears THEN NativeAfterClear(nativeTimers, reportInterval) ELSE nativeTimers

\* variant: stop() whose clearInterval leaves the registry alone
StopTimersKept == timers

StopTimers ==
  IF StopClears THEN TimersAfterClear(timers, globals.clearInterval, reportInterval) ELSE timers

StopExpected ==
  IF StopClears /\ MatchedTimerRelease(globals.clearInterval, reportInterval)
  THEN [expected EXCEPT !.timer = @ - 1]
  ELSE expected

Stop ==
  /\ lastOp' = "stop"
  /\ isRunning' = StopRunning
  /\ reportInterval' = StopReportInterval
  /\ nativeTimers' = StopNative
  /\ timers' = StopTimers
  /\ expected' = StopExpected
  /\ NoOutput
  /\ UNCHANGED <<constVars, returned, pageVars, nextTimerId, slotVars, listeners, domVars, reduxVars,
                 snapshots, taken, cleanedUp>>

GenerateReport ==
  /\ lastOp' = "generateReport"
  /\ ReportBody
  /\ UNCHANGED <<constVars, returned, pageVars, nativeVars, slotVars, listeners, timers, domVars,
                 reduxVars, reportInterval, isRunning, cleanedUp, expected>>

\* The platform runs the callback start() gave to setInterval.
PeriodicCycle ==
  /\ \E id \in DOMAIN nativeTimers : nativeTimers[id].callback = "cycle"
  /\ lastOp' = "timer"
  /\ ReportBody
  /\ UNCHANGED <<constVars, returned, pageVars, nativeVars, slotVars, listeners, timers, domVars,
                 reduxVars, reportInterval, isRunning, cleanedUp, expected>>

\* The trackers' cleanup(), as values; a tracker exists iff its flag is set.
RestoredGlobals ==
  [globals EXCEPT
     !.addEventListener = IF config.event THEN originals.addEventListener ELSE @,
     !.removeEventListener = IF config.event THEN originals.removeEventListener ELSE @,
     !.setTimeout = IF config.timer THEN originals.setTimeout ELSE @,
     !.setInterval = IF config.timer THEN originals.setInterval ELSE @,
     !.clearTimeout = IF config.timer THEN originals.clearTimeout ELSE @,
     !.clearInterval = IF config.timer THEN originals.clearInterval ELSE @]

RestoredSubscribe ==
  IF config.redux /\ storeRef # "undefined" /\ originalStoreSubscribe # "undefined"
  THEN [storeSubscribe EXCEPT ![storeRef] = originalStoreSubscribe]
  ELSE storeSubscribe

CleanedListeners == IF config.event THEN <<>> ELSE listeners

\* variant: a cleanup that leaves the timer registry as it is
CleanedTimersKept(tm) == tm

CleanedTimers(tm) == IF config.timer THEN EmptyMap ELSE tm

CleanedDetached == IF config.dom THEN {} ELSE detachedNodes

CleanedSubscriptions == IF config.redux THEN EmptyMap ELSE storeSubscriptions

CleanedSelectors == IF config.redux THEN <<>> ELSE selectorCalls

Cleanup ==
  /\ lastOp' = IF lastOp \in {"cleanup", "cleanup again"} THEN "cleanup again" ELSE "cleanup"
  /\ cleanedUp' = TRUE
  /\ isRunning' = StopRunning
  /\ reportInterval' = StopReportInterval
  /\ nativeTimers' = StopNative
  /\ expected' = StopExpected
  /\ globals' = RestoredGlobals
  /\ listeners' = CleanedListeners
  /\ timers' = CleanedTimers(StopTimers)
  /\ observer' = IF config.dom THEN FALSE ELSE observer
  /\ detachedNodes' = CleanedDetached
  /\ storeSubscribe' = RestoredSubscribe
  /\ storeSubscriptions' = CleanedSubscriptions
  /\ selectorCalls' = CleanedSelectors
  /\ snapshots' = <<>>
  /\ NoOutput
  /\ UNCHANGED <<constVars, returned, pageVars, nextTimerId, originals, nodeCount,
                 originalStoreSubscribe, storeRef, handles, taken>>

---------------------------------------------------------------------------
(* ReduxTracker operations.                                                *)

\* variant: patchStore without its storeRef guard
PatchNeverNoop == FALSE

PatchIsNoop == storeRef # "undefined"

\* reduxTracker.patchStore(store), as values
PatchedRef(s) == IF PatchIsNoop THEN storeRef ELSE s

PatchedOriginal(s) == IF PatchIsNoop THEN originalStoreSubscribe ELSE storeSubscribe[s]

PatchedSubscribe(s) == IF PatchIsNoop THEN storeSubscribe ELSE [storeSubscribe EXCEPT ![s] = "shim"]

PatchReduxStore(s) ==
  /\ lastOp' = "patchReduxStore"
  /\ IF config.redux
     THEN /\ storeRef' = PatchedRef(s)
          /\ originalStoreSubscribe' = PatchedOriginal(s)
          /\ storeSubscribe' = PatchedSubscribe(s)
     ELSE UNCHANGED <<storeRef, originalStoreSubscribe, storeSubscribe>>
  /\ NoOutput
  /\ UNCHANGED <<constVars, returned, pageVars, nativeVars, globals, originals, listeners, timers,
                 domVars, storeSubscriptions, selectorCalls, handles, detVars,
                 taken, cleanedUp, expected>>

\* the statistics after n calls of trackSelectorUsage(name) at time t
TrackSelectorTimes(sels, name, t, n) ==
  IF n = 0 THEN sels
  ELSE LET s1 == TrackSelector(sels, name, t)
           i == CHOOSE j \in 1..Len(s1) : s1[j].name = name
       IN [s1 EXCEPT ![i].count = @ + (n - 1)]

\* detector.trackSelectorUsage(name), called n times in a row by the page
TrackSelectorUsage(name, n) ==
  /\ lastOp' = "trackSelectorUsage"
  /\ IF config.redux
     THEN selectorCalls' = TrackSelectorTimes(selectorCalls, name, now, n)
     ELSE UNCHANGED selectorCalls
  /\ NoOutput
  /\ UNCHANGED <<constVars, returned, pageVars, nativeVars, slotVars, listeners, timers, domVars,
                 storeSubscriptions, originalStoreSubscribe, storeRef, handles, detVars,
                 taken, cleanedUp, expected>>

\* Date.now() + Math.random() as a double: at the current epoch the sum has
\* RandomGrain representable values per millisecond, and a draw close to 1
\* rounds up to the next millisecond.
SubscriptionId(t, r) == t * RandomGrain + r

\* store.subscribe(f) as installed on store s; r is the Math.random() draw.
\* The page keeps the returned unsubscribe function.
PageSubscribe(s, f, r) ==
  /\ Len(handles) < MaxHandles
  /\ lastOp' = "page"
  /\ IF storeSubscribe[s] = "shim"
     THEN /\ storeSubscriptions' =
               MapSet(storeSubscriptions, SubscriptionId(now, r),
                      [subscriber |-> f, created |-> now])
          /\ handles' = Append(handles, [store |-> s, wrapped |-> TRUE,
                                         subscriptionId |-> SubscriptionId(now, r),
                                         called |-> FALSE])
          /\ expected' = [expected EXCEPT !.store = @ + 1]
     ELSE /\ handles' = Append(handles, [store |-> s, wrapped |-> FALSE,
                                         subscriptionId |-> 0, called |-> FALSE])
          /\ UNCHANGED <<storeSubscriptions, expected>>
  /\ Quiet
  /\ shimCall' =
       Forwarded("subscribe", s, [listener |-> f], storeSubscribe[s],
                 <<Invocation("subscribe", s, [listener |-> f])>>,
                 Value("unsubscribe", Len(handles) + 1),
                 IF storeSubscribe[s] = "shim"
                 THEN Value("wrapped unsubscribe", Len(handles) + 1)
                 ELSE Value("unsubscribe", Len(handles) + 1))
  /\ UNCHANGED <<constVars, returned, pageVars, nativeVars, slotVars, listeners, timers, domVars,
                 selectorCalls, originalStoreSubscribe, storeRef, detVars, taken, cleanedUp>>

\* The page invokes the i-th unsubscribe function it was given.
PageUnsubscribe(i) ==
  /\ i \in 1..Len(handles)
  /\ lastOp' = "page"
  /\ handles' = [handles EXCEPT ![i].called = TRUE]
  /\ IF handles[i].wrapped
     THEN /\ storeSubscriptions' = MapDelete(storeSubscriptions, handles[i].subscriptionId)
          /\ expected' = [expected EXCEPT !.store =
                            IF handles[i].subscriptionId \in DOMAIN storeSubscriptions
                            THEN @ - 1 ELSE @]
     ELSE UNCHANGED <<storeSubscriptions, expected>>
  /\ Quiet
  /\ shimCall' =
       Forwarded("unsubscribe", "undefined", [handle |-> i],
                 IF handles[i].wrapped THEN "shim" ELSE "native",
                 <<Invocation("unsubscribe", "undefined", [handle |-> i])>>,
                 Undefined, Undefined)
  /\ UNCHANGED <<constVars, returned, pageVars, nativeVars, slotVars, listeners, timers, domVars,
                 selectorCalls, originalStoreSubscribe, storeRef, detVars, taken, cleanedUp>>

---------------------------------------------------------------------------
(* The page's use of the listener entry points.                            *)

\* the registry after a loop of addEventListener(k, l) calls on t, one for
\* each l in S
TrackAddAll(reg, t, k, S) ==
  IF S = {} THEN reg
  ELSE LET first == CHOOSE x \in S : TRUE
           r1 == TrackAdd(reg, t, k, first)
           i == IndexOf(r1, t)
       IN [r1 EXCEPT ![i].types[k] = @ \cup S]

TopListener(reg, t, k) ==
  LET S == ListenerSet(reg, t, k) \cup {NumNamed}
  IN CHOOSE x \in S : \A y \in S : y <= x

\* target.addEventListener(kind, l) for each l in ls: one call, or a page loop
\* attaching freshly created closures.
PageAddEventListener(t, k, ls) ==
  /\ lastOp' = "page"
  /\ IF globals.addEventListener = "shim"
     THEN /\ listeners' = TrackAddAll(listeners, t, k, ls)
          /\ expected' = [expected EXCEPT !.listener = @ + Cardinality(ls)]
     ELSE UNCHANGED <<listeners, expected>>
  /\ Quiet
  /\ LET last == CHOOSE l \in ls : \A x \in ls : x <= l
         args == [type |-> k, listener |-> last, options |-> "options"]
     IN shimCall' = Forwarded("addEventListener", t, args, globals.addEventListener,
                              <<Invocation("addEventListener", t, args)>>,
                              Undefined, Undefined)
  /\ UNCHANGED <<constVars, returned, pageVars, nativeVars, slotVars, timers, domVars, reduxVars,
                 detVars, taken, cleanedUp>>

PageAddListener(t, k, l) == PageAddEventListener(t, k, {l})

PageAddClosures(t, k) ==
  /\ TopListener(listeners, t, k) + ListenerBatch <= NumNamed + MaxAnon
  /\ PageAddEventListener(t, k, (TopListener(listeners, t, k) + 1) ..
                                (TopListener(listeners, t, k) + ListenerBatch))

PageRemoveEventListener(t, k, l) ==
  /\ lastOp' = "page"
  /\ IF globals.removeEventListener = "shim"
     THEN /\ listeners' = TrackRemove(listeners, t, k, l)
          /\ expected' = [expected EXCEPT !.listener =
                            IF l \in ListenerSet(listeners, t, k) THEN @ - 1 ELSE @]
     ELSE UNCHANGED <<listeners, expected>>
  /\ Quiet
  /\ LET args == [type |-> k, listener |-> l, options |-> "options"]
     IN shimCall' = Forwarded("removeEventListener", t, args, globals.removeEventListener,
                              <<Invocation("removeEventListener", t, args)>>,
                              Undefined, Undefined)
  /\ UNCHANGED <<constVars, returned, pageVars, nativeVars, slotVars, timers, domVars, reduxVars,
                 detVars, taken, cleanedUp>>

---------------------------------------------------------------------------
(* The page's use of the timer entry points.                               *)

\* n calls of setTimeout (type "timeout") or setInterval (type "interval")
\* made with the given receiver
PageSetTimerAs(receiver, type, n) ==
  /\ nextTimerId <= MaxTimerId
  /\ lastOp' = "page"
  /\ LET ids == nextTimerId .. (nextTimerId + n - 1)
         fn == IF type = "timeout" THEN globals.setTimeout ELSE globals.setInterval
         op == IF type = "timeout" THEN "setTimeout" ELSE "setInterval"
         args == [handler |-> "page", timeout |-> "delay", rest |-> "args"]
     IN /\ nativeTimers' = NativeAfterSet(nativeTimers, ids, type, "page")
        /\ nextTimerId' = nextTimerId + n
        /\ timers' = TimersAfterSet(timers, fn, ids, type, now)
        /\ expected' = [expected EXCEPT !.timer = IF fn = "shim" THEN @ + n ELSE @]
        /\ shimCall' = Forwarded(op, receiver, args, fn,
                                 <<Invocation(op, TimerReceiver(fn, receiver), args)>>,
                                 Value("timer", nextTimerId + n - 1),
                                 Value("timer", nextTimerId + n - 1))
  /\ Quiet
  /\ UNCHANGED <<constVars, returned, pageVars, slotVars, listeners, domVars, reduxVars, detVars,
                 taken, cleanedUp>>

\* a module's bare setTimeout(...) / setInterval(...): the receiver is undefined
PageSetTimer(type, n) == PageSetTimerAs("undefined", type, n)

\* clearTimeout(id) or clearInterval(id) made with the given receiver; id 0
\* stands for a falsy argument
PageClearTimerAs(receiver, type, id) ==
  /\ lastOp' = "page"
  /\ LET fn == IF type = "timeout" THEN globals.clearTimeout ELSE globals.clearInterval
         op == IF type = "timeout" THEN "clearTimeout" ELSE "clearInterval"
     IN /\ nativeTimers' = NativeAfterClear(nativeTimers, id)
        /\ timers' = TimersAfterClear(timers, fn, id)
        /\ expected' = [expected EXCEPT !.timer =
                          IF MatchedTimerRelease(fn, id) THEN @ - 1 ELSE @]
        /\ shimCall' = Forwarded(op, receiver, [id |-> id], fn,
                                 <<Invocation(op, TimerReceiver(fn, receiver), [id |-> id])>>,
                                 Undefined, Undefined)
  /\ Quiet
  /\ UNCHANGED <<constVars, returned, pageVars, nextTimerId, slotVars, listeners, domVars, reduxVars,
                 detVars, taken, cleanedUp>>

PageClearTimer(type, id) == PageClearTimerAs("undefined", type, id)

\* variant: a setTimeout shim whose entry is dropped when the callback runs
TimeoutFiresForgets(id) ==
  /\ id \in DOMAIN nativeTimers
  /\ nativeTimers[id].type = "timeout"
  /\ lastOp' = "page"
  /\ nativeTimers' = MapDelete(nativeTimers, id)
  /\ timers' = MapDelete(timers, id)
  /\ NoOutput
  /\ UNCHANGED <<constVars, returned, pageVars, nextTimerId, slotVars, listeners, domVars,
                 reduxVars, detVars, taken, cleanedUp, expected>>

\* The platform runs a one-shot timer of the page, which is then gone.
TimeoutFires(id) ==
  /\ id \in DOMAIN nativeTimers
  /\ nativeTimers[id].type = "timeout"
  /\ lastOp' = "page"
  /\ nativeTimers' = MapDelete(nativeTimers, id)
  /\ NoOutput
  /\ UNCHANGED <<constVars, returned, pageVars, nextTimerId, slotVars, listeners, timers, domVars,
                 reduxVars, detVars, taken, cleanedUp, expected>>

---------------------------------------------------------------------------
(* The page's heap, clock and document.                                    *)

PageAllocate(h) ==
  /\ h # usedHeap
  /\ lastOp' = "page"
  /\ usedHeap' = h
  /\ NoOutput
  /\ UNCHANGED <<constVars, returned, now, domCount, nativeVars, slotVars, listeners, timers, domVars,
                 reduxVars, detVars, taken, cleanedUp, expected>>

Tick(d) ==
  /\ lastOp' = "page"
  /\ now' = now + d
  /\ NoOutput
  /\ UNCHANGED <<constVars, returned, usedHeap, domCount, nativeVars, slotVars, listeners, timers,
                 domVars, reduxVars, detVars, taken, cleanedUp, expected>>

\* A mutation of the document: afterwards it holds n elements; the observer,
\* if connected, is told of `added` added nodes and of `removed` removed
\* nodes, which are parentless elements outside the document iff `detached`.
PageMutation(n, added, removed, detached) ==
  /\ env.document
  /\ lastOp' = "page"
  /\ domCount' = n
  /\ IF observer
     THEN /\ nodeCount' = nodeCount + added
          /\ detachedNodes' =
               IF detached
               THEN detachedNodes \cup
                    ((Cardinality(detachedNodes) + 1) .. (Cardinality(detachedNodes) + removed))
               ELSE detachedNodes
     ELSE UNCHANGED <<nodeCount, detachedNodes>>
  /\ NoOutput
  /\ UNCHANGED <<constVars, returned, now, usedHeap, nativeVars, slotVars, listeners, timers, observer,
                 reduxVars, detVars, taken, cleanedUp, expected>>

---------------------------------------------------------------------------
(* The state new MemoryLeakDetector(config) leaves, in host environment e  *)
(* with enable flags c.  Before construction every slot holds the          *)
(* platform's function.                                                    *)

Flags == [event : BOOLEAN, timer : BOOLEAN, dom : BOOLEAN, redux : BOOLEAN]

AllEnabled == [event |-> TRUE, timer |-> TRUE, dom |-> TRUE, redux |-> TRUE]

\* A browser page; performance.memory exists in some browsers only.
BrowserPages ==
  [memory : BOOLEAN, mutationObserver : {TRUE}, document : {TRUE}, window : {TRUE},
   devtools : BOOLEAN, windowStore : {"none", "storeA"}]

\* A host without window, document and MutationObserver.
Headless ==
  [memory |-> FALSE, mutationObserver |-> FALSE, document |-> FALSE, window |-> FALSE,
   devtools |-> FALSE, windowStore |-> "none"]

Chrome ==
  [memory |-> TRUE, mutationObserver |-> TRUE, document |-> TRUE, window |-> TRUE,
   devtools |-> FALSE, windowStore |-> "none"]

\* detectStoreFromWindow finds a store in a window slot and patches it
FoundStore(e, c) == c.redux /\ e.window /\ e.windowStore # "none"

\* setupDevToolsHook replaces the hook
HookWrapped(e, c) == c.redux /\ e.window /\ e.devtools

\* the entry points the listener and timer trackers replace
TrackedSlots ==
  {"addEventListener", "removeEventListener", "setTimeout", "setInterval", "clearTimeout",
   "clearInterval"}

\* the tracker that replaces a slot exists in a detector with flags c
SlotTracked(c, slot) ==
  IF slot \in {"addEventListener", "removeEventListener"} THEN c.event ELSE c.timer

\* no second detector has been constructed
NoSecond ==
  [constructed |-> FALSE, cleaned |-> FALSE, config |-> AllEnabled,
   originals |-> [slot \in TrackedSlots |-> "none"]]

Constructed(e, c) ==
  /\ env = e
  /\ config = c
  /\ now = 1
  /\ usedHeap = 100 * MB
  /\ domCount = IF e.document THEN 3 ELSE 0
  /\ nativeTimers = EmptyMap
  /\ nextTimerId = 1
  /\ handles = <<>>
  /\ originals = [addEventListener |-> IF c.event THEN "native" ELSE "none",
                  removeEventListener |-> IF c.event THEN "native" ELSE "none",
                  setTimeout |-> IF c.timer THEN "native" ELSE "none",
                  setInterval |-> IF c.timer THEN "native" ELSE "none",
                  clearTimeout |-> IF c.timer THEN "native" ELSE "none",
                  clearInterval |-> IF c.timer THEN "native" ELSE "none"]
  /\ globals = [addEventListener |-> IF c.event THEN "shim" ELSE "native",
                removeEventListener |-> IF c.event THEN "shim" ELSE "native",
                setTimeout |-> IF c.timer THEN "shim" ELSE "native",
                setInterval |-> IF c.timer THEN "shim" ELSE "native",
                clearTimeout |-> IF c.timer THEN "shim" ELSE "native",
                clearInterval |-> IF c.timer THEN "shim" ELSE "native",
                devtools |-> IF HookWrapped(e, c) THEN "wrapped"
                             ELSE IF e.window /\ e.devtools THEN "native" ELSE "absent"]
  /\ storeSubscribe = [s \in Stores |->
                         IF FoundStore(e, c) /\ s = e.windowStore THEN "shim" ELSE "native"]
  /\ listeners = <<>>
  /\ timers = EmptyMap
  /\ observer = (c.dom /\ e.mutationObserver)
  /\ detachedNodes = {}
  /\ nodeCount = 0
  /\ storeSubscriptions = EmptyMap
  /\ selectorCalls = <<>>
  /\ originalStoreSubscribe = IF FoundStore(e, c) THEN "native" ELSE "undefined"
  /\ storeRef = IF FoundStore(e, c) THEN e.windowStore ELSE "undefined"
  /\ snapshots = <<>>
  /\ reportInterval = 0
  /\ isRunning = FALSE
  /\ calls = <<>>
  /\ lastReport = <<>>
  /\ threw = FALSE
  /\ shimCall = <<>>
  /\ returned = <<>>
  /\ second = NoSecond
  /\ lastOp = "construct"
  /\ taken = 0
  /\ cleanedUp = FALSE
  /\ expected = [listener |-> 0, timer |-> 0, store |-> 0]

---------------------------------------------------------------------------
(* Lifecycle specification: the host environments and flag combinations   *)
(* below, the lifecycle operations, and one acquisition of each resource   *)
(* kind.                                                                   *)

\* every tracker enabled, none, and each one alone disabled
FlagChoices ==
  {c \in Flags : Cardinality({f \in DOMAIN c : ~c[f]}) \in {0, 1, 4}}

ChromeWithStore == [Chrome EXCEPT !.devtools = TRUE, !.windowStore = "storeA"]

Firefox == [Chrome EXCEPT !.memory = FALSE]

Environments == {Chrome, ChromeWithStore, Firefox, Headless}

SelectorCountOf(name) ==
  IF \E i \in 1..Len(selectorCalls) : selectorCalls[i].name = name
  THEN selectorCalls[CHOOSE i \in 1..Len(selectorCalls) : selectorCalls[i].name = name].count
  ELSE 0

Init == \E e \in Environments, c \in FlagChoices : Constructed(e, c)

Next ==
  \/ taken < MaxTaken /\ Start
  \/ Stop
  \/ taken < MaxTaken /\ GenerateReport
  \/ taken < MaxTaken /\ PeriodicCycle
  \/ Cleanup
  \/ \E s \in Stores : PatchReduxStore(s)
  \/ \E id \in 0..MaxTimerId : PageClearTimer("interval", id)
  \/ \E h \in {100 * MB, 112 * MB} : PageAllocate(h)

Spec == Init /\ [][Next]_vars


---------------------------------------------------------------------------
(* Teardown specification: resources of every kind are acquired through    *)
(* the installed entry points, then the detector is stopped and cleaned up, *)
(* possibly repeatedly.                                                    *)

InitTeardown ==
  \E e \in {Chrome, ChromeWithStore, Headless}, c \in FlagChoices : Constructed(e, c)

NextTeardown ==
  \/ taken < MaxStarts /\ Start
  \/ Stop
  \/ Cleanup
  \/ \E s \in Stores : PatchReduxStore(s)
  \/ PageSubscribe("storeA", "render", 0)
  \/ expected.listener < MaxListenerCalls /\ PageAddListener("button", "click", 1)
  \/ PageSetTimer("timeout", 1)
  \/ nodeCount < MaxNodeCount /\ PageMutation(3, 1, DetachedBatch, TRUE)
  \/ SelectorCountOf("selUser") < MaxCalls /\ TrackSelectorUsage("selUser", 1)

SpecTeardown == InitTeardown /\ [][NextTeardown]_vars

---------------------------------------------------------------------------
(* Registry specification: the page acquires and releases listeners,       *)
(* timers and store subscriptions through whatever entry points are        *)
(* installed, while the detector is started, stopped and cleaned up.       *)

InitRegistry == Constructed(Chrome, AllEnabled)

NextRegistry ==
  \/ Cleanup
  \/ PatchReduxStore("storeA")
  \/ \E r \in 0..RandomGrain : PageSubscribe("storeA", "render", r)
  \/ \E i \in 1..MaxHandles : PageUnsubscribe(i)
  \/ \E l \in 1..NumNamed :
       expected.listener < MaxListenerCalls /\ PageAddListener("button", "click", l)
  \/ \E l \in 1..NumNamed : PageRemoveEventListener("button", "click", l)
  \/ \E type \in {"timeout", "interval"} : PageSetTimer(type, 1)
  \/ \E type \in {"timeout", "interval"}, id \in 0..MaxTimerId : PageClearTimer(type, id)
  \/ now < MaxNow /\ Tick(1)

SpecRegistry == InitRegistry /\ [][NextRegistry]_vars

---------------------------------------------------------------------------
(* History specification: one detector that is started once, stopped, and  *)
(* asked for reports, directly and by its periodic cycle.                  *)

InitHistory == \E e \in {Chrome, Firefox} : Constructed(e, AllEnabled)

NextHistory ==
  \/ taken < MaxStarts /\ Start
  \/ Stop
  \/ taken < MaxTakenHist /\ GenerateReport
  \/ taken < MaxTakenHist /\ PeriodicCycle

SpecHistory == InitHistory /\ [][NextHistory]_vars

---------------------------------------------------------------------------
(* Listener specification: the page attaches single listeners and batches  *)
(* of closures to its targets, detaches listeners, and asks for a report.  *)

EventDisabled == [AllEnabled EXCEPT !.event = FALSE]

InitListeners == \E c \in {AllEnabled, EventDisabled} : Constructed(Chrome, c)

\* the (target, kind) keys the page uses
PageKeys == {<<t, k>> \in Targets \X Kinds : t = "button" \/ k = "click"}

NextListeners ==
  \/ \E key \in PageKeys : PageAddClosures(key[1], key[2])
  \/ \E l \in 1..NumNamed :
       /\ l \notin ListenerSet(listeners, "button", "click")
       /\ PageAddListener("button", "click", l)
  \/ \E l \in 1..NumNamed : PageRemoveEventListener("button", "click", l)
  \/ taken < MaxStarts /\ GenerateReport

SpecListeners == InitListeners /\ [][NextListeners]_vars

---------------------------------------------------------------------------
(* Growth specification: the page's heap moves between the readings below  *)
(* while snapshots are taken by start(), the periodic cycle and            *)
(* generateReport().                                                       *)

HeapReadings ==
  {90 * MB, 100 * MB, 105 * MB, 110 * MB, 110 * MB + 1, 110 * MB + MB \div 2,
   112 * MB, 150 * MB, 150 * MB + 1}

InitGrowth == \E e \in {Chrome, Firefox} : Constructed(e, AllEnabled)

NextGrowth ==
  \/ taken < MaxCycles /\ Start
  \/ Stop
  \/ taken < MaxCycles /\ GenerateReport
  \/ taken < MaxCycles /\ PeriodicCycle
  \/ \E h \in HeapReadings : PageAllocate(h)

SpecGrowth == InitGrowth /\ [][NextGrowth]_vars

---------------------------------------------------------------------------
(* Cycle specification: the page leaks resources of every category, in any *)
(* order, between cycles.                                                  *)

InitCycle == \E c \in FlagChoices : Constructed(Chrome, c)

NextCycle ==
  \/ taken < MaxCycles /\ Start
  \/ taken < MaxCycles /\ GenerateReport
  \/ taken < MaxCycles /\ PeriodicCycle
  \/ PageAddClosures("button", "click")
  \/ PageSetTimer("interval", IntervalBatch)
  \/ nodeCount < MaxNodeCount /\ PageMutation(DomThreshold + 1, 1, DetachedBatch, TRUE)
  \/ SelectorCountOf("selUser") < SelectorBatch
       /\ TrackSelectorUsage("selUser", SelectorBatch)
  \/ PageAllocate(112 * MB)

SpecCycle == InitCycle /\ [][NextCycle]_vars

---------------------------------------------------------------------------
(* Shim specification: the page calls every intercepted entry point, with  *)
(* tracked and untracked arguments.                                        *)

\* the page's timer calls: bare setTimeout(...) / clearTimeout(...) and
\* window.setInterval(...) / window.clearInterval(...)
TimerCalls == {<<"undefined", "timeout">>, <<"globalThis", "interval">>}

InitShims == Constructed(Chrome, AllEnabled)

NextShims ==
  \/ PatchReduxStore("storeA")
  \/ PageSubscribe("storeA", "render", 0)
  \/ \E i \in 1..MaxHandles : PageUnsubscribe(i)
  \/ expected.listener < MaxListenerCalls /\ PageAddListener("button", "click", 1)
  \/ PageRemoveEventListener("button", "click", 1)
  \/ \E c \in TimerCalls : PageSetTimerAs(c[1], c[2], 1)
  \/ \E c \in TimerCalls, id \in 0..MaxTimerId : PageClearTimerAs(c[1], c[2], id)

SpecShims == InitShims /\ [][NextShims]_vars

---------------------------------------------------------------------------
(* Properties of the lifecycle.                                            *)

CycleTimers == {id \in DOMAIN nativeTimers : nativeTimers[id].callback = "cycle"}

\* everything but the record of the latest call and its outputs
programVars == <<constVars, pageVars, nativeVars, slotVars, listeners, timers, domVars,
                 reduxVars, detVars, taken>>

\* C5: after cleanup() the detector is inert: it never becomes running again,
\* and a start() takes no snapshot and schedules no periodic cycle.
C5_InertAfterCleanup ==
  [][cleanedUp =>
       /\ ~isRunning'
       /\ lastOp' = "start" => (snapshots' = snapshots /\ nativeTimers' = nativeTimers)]_vars

\* C6: start() while running and stop() while not running change nothing, and
\* at most one periodic-cycle timer is scheduled at any time.
C6_IdempotentStartStop ==
  [][/\ Cardinality(CycleTimers') <= 1
     /\ (isRunning /\ lastOp' = "start") => (UNCHANGED programVars /\ calls' = <<>> /\ ~threw')
     /\ (~isRunning /\ lastOp' = "stop") => (UNCHANGED programVars /\ calls' = <<>> /\ ~threw')
    ]_vars

\* start() was called on a running detector: the second snapshot, taken by a
\* report, counts the detector's own timer, and no third one was taken.
C6_Witness ==
  /\ lastOp = "start"
  /\ isRunning
  /\ taken = 2
  /\ Len(snapshots) = 2
  /\ snapshots[2].counts.timers = 1
  /\ Cardinality(CycleTimers) = 1

\* the slot values before construction
PreConstructionHook == IF env.window /\ env.devtools THEN "native" ELSE "absent"

\* C7: after cleanup() every replaced entry point holds the function it held
\* before the detector was constructed, the store-tooling hook slot included.
C7_CleanupRestoresAll ==
  lastOp = "cleanup" =>
    /\ \A f \in {"addEventListener", "removeEventListener", "setTimeout", "setInterval",
                 "clearTimeout", "clearInterval"} : globals[f] = "native"
    /\ \A s \in Stores : storeSubscribe[s] = "native"
    /\ globals.devtools = PreConstructionHook

\* C8: cleanup() followed by cleanup() does not throw; after each call the
\* listener, timer and store-subscription counts and the detached-node set
\* are empty; the second call leaves every entry point as the first left it.
C8_CleanupTwice ==
  [][lastOp' \in {"cleanup", "cleanup again"} =>
       /\ ~threw'
       /\ GetActiveListeners(listeners') = 0
       /\ GetActiveTimers(timers') = 0
       /\ GetActiveSubscriptions(storeSubscriptions') = 0
       /\ Cardinality(detachedNodes') = 0
       /\ lastOp' = "cleanup again" =>
            (globals' = globals /\ storeSubscribe' = storeSubscribe)]_vars

\* cleanup() was called twice in a row on a detector through whose shims a
\* listener, a timer and a subscription had been acquired
C8_Witness ==
  /\ lastOp = "cleanup again"
  /\ expected.listener >= 1
  /\ expected.timer >= 1
  /\ expected.store >= 1
  /\ nodeCount >= 1

---------------------------------------------------------------------------
(* Properties of the registries.                                           *)

\* C1: while the shims are installed, each tracker's active count equals the
\* number of acquires made through its shim minus the number of releases
\* that matched a live handle, and is never negative.
C1_CountIsAcquiresMinusReleases ==
  ~cleanedUp =>
    /\ GetActiveListeners(listeners) = expected.listener
    /\ GetActiveTimers(timers) = expected.timer
    /\ GetActiveSubscriptions(storeSubscriptions) = expected.store
    /\ expected.listener >= 0 /\ expected.timer >= 0 /\ expected.store >= 0

\* the page was handed a wrapped unsubscribe function in this step
SubscribedThroughShim ==
  /\ Len(handles') = Len(handles) + 1
  /\ handles'[Len(handles')].wrapped

\* the page invoked the wrapped unsubscribe function i for the first time
UnsubscribedFirst(i) ==
  /\ i \in 1..Len(handles)
  /\ handles[i].wrapped
  /\ ~handles[i].called
  /\ Len(handles') = Len(handles)
  /\ handles'[i].called

\* C10: the store is wrapped once, so one subscribe call adds exactly one
\* registry entry and cleanup() restores the original subscribe; invoking a
\* returned unsubscribe removes the entry of its own subscribe call and
\* leaves the entries of all other live subscriptions in place.
C10_OneEntryPerSubscribe ==
  [][/\ lastOp' = "cleanup" => \A s \in Stores : storeSubscribe'[s] = "native"
     /\ (~cleanedUp /\ SubscribedThroughShim) =>
          GetActiveSubscriptions(storeSubscriptions') =
          GetActiveSubscriptions(storeSubscriptions) + 1
     /\ \A i \in 1..MaxHandles :
          (~cleanedUp /\ UnsubscribedFirst(i)) =>
            /\ handles[i].subscriptionId \in DOMAIN storeSubscriptions
            /\ handles[i].subscriptionId \notin DOMAIN storeSubscriptions'
            /\ \A j \in 1..Len(handles) :
                 (j # i /\ handles[j].wrapped /\ ~handles[j].called) =>
                   handles[j].subscriptionId \in DOMAIN storeSubscriptions'
    ]_vars

---------------------------------------------------------------------------
(* Properties of the snapshot history.                                     *)

\* C2: the history holds at most 100 snapshots and they are the most
\* recently taken ones in the order taken; after 150 snapshots these are the
\* 51st to the 150th.
C2_HistoryKeepsLast100 ==
  /\ Len(snapshots) <= 100
  /\ Len(snapshots) = Min(taken, 100)
  /\ \A i \in 1..Len(snapshots) : snapshots[i].serial = taken - Len(snapshots) + i
  /\ taken = 150 => snapshots[1].serial = 51 /\ snapshots[100].serial = 150

C2_Witness ==
  /\ taken = 150
  /\ Len(snapshots) = 100
  /\ snapshots[1].serial = 51
  /\ snapshots[100].serial = 150

---------------------------------------------------------------------------
(* Properties of the detection rules.                                      *)

\* the suspects of the given types in the report just returned
ReportedOf(types) ==
  SelectSeq(lastReport[1].leakSuspects, LAMBDA x : x.type \in types)

\* the listener suspects of the report just returned that name target t
ReportedFor(t) ==
  SelectSeq(lastReport[1].leakSuspects,
            LAMBDA x : x.type = "event-listener" /\ x.description.arg = t)

KeyCount(t, k) == Cardinality(ListenerSet(listeners, t, k))

TargetCount(t) == SumOver([k \in Kinds |-> KeyCount(t, k)], Kinds)

\* C3 as stated: the listener tracker emits a suspect for a (target, kind)
\* key iff that key's live count exceeds 50, critical iff it exceeds 100 and
\* high otherwise; a key with 50 or fewer yields none, whatever the other
\* kinds of the target hold.
C3_SuspectPerKey ==
  (lastReport # <<>> /\ config.event) =>
    \A t \in Targets :
      /\ Len(ReportedFor(t)) = Cardinality({k \in Kinds : KeyCount(t, k) > 50})
      /\ \A i \in 1..Len(ReportedFor(t)) :
           \E k \in Kinds :
             /\ KeyCount(t, k) > 50
             /\ ReportedFor(t)[i].count = KeyCount(t, k)
             /\ ReportedFor(t)[i].severity =
                  IF KeyCount(t, k) > 100 THEN "critical" ELSE "high"

\* C3 amended: the listener tracker emits one suspect for a target iff the
\* target's live listeners, summed over all its event kinds, exceed 50; the
\* suspect carries that sum and is critical iff the sum exceeds 100, high
\* otherwise.
C3_SuspectPerTarget ==
  (lastReport # <<>> /\ config.event) =>
    \A t \in Targets :
      /\ Len(ReportedFor(t)) = IF TargetCount(t) > 50 THEN 1 ELSE 0
      /\ \A i \in 1..Len(ReportedFor(t)) :
           /\ ReportedFor(t)[i].count = TargetCount(t)
           /\ ReportedFor(t)[i].severity =
                IF TargetCount(t) > 100 THEN "critical" ELSE "high"

C3_Witness ==
  /\ lastReport # <<>>
  /\ config.event
  /\ KeyCount("button", "click") = 50
  /\ KeyCount("button", "keydown") = 50
  /\ Len(ReportedFor("button")) = 1
  /\ ReportedFor("button")[1].count = 100
  /\ ReportedFor("button")[1].severity = "high"

\* heap-used of the i-th snapshot from the end of the history
HeapUsedBack(i) == snapshots[Len(snapshots) + 1 - i].memory.heapUsed

Increase == HeapUsedBack(1) - HeapUsedBack(2)

\* C4: the growth rule is skipped with fewer than two snapshots; otherwise
\* it emits exactly one growth suspect iff the latest snapshot's heap-used
\* exceeds the previous one's by more than 10 MB, critical if by more than
\* 50 MB and high otherwise, with the increase in MB rounded to the nearest
\* integer as magnitude (100 MB then 112 MB: magnitude 12, high; 100 MB then
\* 105 MB: no suspect).
C4_GrowthRule ==
  lastReport # <<>> =>
    LET growth == ReportedOf({"closure"})
    IN IF Len(snapshots) < 2
       THEN growth = <<>>
       ELSE /\ Len(growth) = IF Increase > 10 * MB THEN 1 ELSE 0
            /\ \A i \in 1..Len(growth) :
                 /\ growth[i].severity = IF Increase > 50 * MB THEN "critical" ELSE "high"
                 /\ 2 * growth[i].count * MB <= 2 * Increase + MB
                 /\ 2 * Increase + MB < 2 * (growth[i].count + 1) * MB
            /\ (HeapUsedBack(2) = 100 * MB /\ HeapUsedBack(1) = 112 * MB) =>
                 /\ Len(growth) = 1
                 /\ growth[1].count = 12
                 /\ growth[1].severity = "high"
            /\ (HeapUsedBack(2) = 100 * MB /\ HeapUsedBack(1) = 105 * MB) => growth = <<>>

C4_Witness ==
  /\ lastReport # <<>>
  /\ Len(snapshots) >= 2
  /\ HeapUsedBack(2) = 100 * MB
  /\ HeapUsedBack(1) = 110 * MB + MB \div 2
  /\ ReportedOf({"closure"})[1].count = 11

---------------------------------------------------------------------------
(* Properties of a cycle.                                                  *)

\* position of a suspect's category in the order listener, timer,
\* structural node, store, growth
CategoryRank(type) ==
  CASE type = "event-listener" -> 1
    [] type = "timer" -> 2
    [] type \in {"dom-reference", "detached-dom"} -> 3
    [] type \in {"redux-subscription", "redux-selector"} -> 4
    [] type = "closure" -> 5

CalledSuspects == [i \in 1..(Len(calls) - 1) |-> calls[i].arg]

OfRank(suspects, r) == SelectSeq(suspects, LAMBDA x : CategoryRank(x.type) = r)

\* C9: in every cycle the suspect list is the listener, timer, structural
\* node and store trackers' suspects in this order followed by the growth
\* suspect; on-leak is invoked once per suspect in list order and after all
\* of them on-report is invoked once with a report carrying the same list.
C9_CycleOrder ==
  calls # <<>> =>
    /\ calls[Len(calls)].callback = "onReport"
    /\ \A i \in 1..(Len(calls) - 1) : calls[i].callback = "onLeak"
    /\ CalledSuspects = calls[Len(calls)].arg.leakSuspects
    /\ <<calls[Len(calls)].arg>> = lastReport
    /\ \A i, j \in 1..Len(CalledSuspects) :
         i < j => CategoryRank(CalledSuspects[i].type) <= CategoryRank(CalledSuspects[j].type)
    /\ OfRank(CalledSuspects, 1) =
         IF config.event THEN ListenerDetectLeaks(listeners) ELSE <<>>
    /\ OfRank(CalledSuspects, 2) =
         IF config.timer THEN TimerDetectLeaks(timers, now) ELSE <<>>
    /\ OfRank(CalledSuspects, 3) =
         IF config.dom THEN DomDetectLeaks(domCount, detachedNodes) ELSE <<>>
    /\ OfRank(CalledSuspects, 4) =
         IF config.redux THEN ReduxDetectLeaks(storeSubscriptions, selectorCalls, now)
         ELSE <<>>
    /\ OfRank(CalledSuspects, 5) = GrowthSuspects(snapshots)

C9_Witness ==
  /\ calls # <<>>
  /\ \A r \in 1..5 : OfRank(CalledSuspects, r) # <<>>
  /\ Len(OfRank(CalledSuspects, 3)) = 2

---------------------------------------------------------------------------
(* Properties of the shims.                                                *)

TimerOps == {"setTimeout", "setInterval", "clearTimeout", "clearInterval"}

\* C11 as stated: every shim invokes the real operation exactly once per
\* call with the caller's receiver and arguments and passes its result back
\* unchanged, whether or not the call matched a tracked entry.
C11_ForwardedUnchanged ==
  (shimCall # <<>> /\ shimCall[1].shim) =>
    /\ shimCall[1].underlying =
         <<Invocation(shimCall[1].op, shimCall[1].receiver, shimCall[1].args)>>
    /\ shimCall[1].returned = shimCall[1].result

\* C11 amended: every shim invokes the real operation exactly once per call
\* with the caller's arguments, whether or not the call matched a tracked
\* entry; the listener and store shims pass the caller's receiver on, the
\* timer shims pass the global object; every shim passes the result back
\* unchanged except subscribe, which passes back its wrapper around the
\* unsubscribe function the store returned.
C11_Forwarded ==
  (shimCall # <<>> /\ shimCall[1].shim) =>
    /\ Len(shimCall[1].underlying) = 1
    /\ shimCall[1].underlying[1].op = shimCall[1].op
    /\ shimCall[1].underlying[1].args = shimCall[1].args
    /\ shimCall[1].underlying[1].receiver =
         IF shimCall[1].op \in TimerOps THEN "globalThis" ELSE shimCall[1].receiver
    /\ shimCall[1].returned =
         IF shimCall[1].op = "subscribe"
         THEN Value("wrapped unsubscribe", shimCall[1].result.id)
         ELSE shimCall[1].result

\* an untracked id released through the shim by a bare call
C11_Witness ==
  /\ shimCall # <<>>
  /\ shimCall[1].shim
  /\ shimCall[1].op = "clearTimeout"
  /\ shimCall[1].receiver = "undefined"
  /\ shimCall[1].args.id >= nextTimerId
  /\ shimCall[1].underlying[1].receiver = "globalThis"

---------------------------------------------------------------------------
(* C12: absent host facilities.                                            *)

\* C12: when a host facility is absent (no heap counters, no document, no
\* mutation observer, no discoverable store) no operation throws, and the
\* measurements that depend on the absent facility are zero or empty in
\* every snapshot and report.
C12_AbsentFacilitiesDegrade ==
  /\ ~threw
  /\ \A i \in 1..Len(snapshots) :
       /\ ~env.memory => snapshots[i].memory.heapUsed = 0 /\ snapshots[i].memory.heapTotal = 0
       /\ ~env.document => snapshots[i].counts.domNodes = 0
       /\ ~env.mutationObserver => snapshots[i].counts.detachedNodes = 0
  /\ lastReport # <<>> =>
       /\ ~env.memory => lastReport[1].heapUsed = 0 /\ lastReport[1].heapTotal = 0
       /\ ~env.document =>
            \A j \in 1..Len(lastReport[1].leakSuspects) :
              lastReport[1].leakSuspects[j].type \notin {"dom-reference", "detached-dom"}
  /\ ~FoundStore(env, config) /\ storeRef = "undefined" => storeSubscriptions = EmptyMap

---------------------------------------------------------------------------
(* getSnapshots() and its caller.  The history holds snapshot objects; a   *)
(* snapshot object is identified by its serial.  getSnapshots() returns a  *)
(* new array whose elements are the history's own objects.                 *)

MaxReturned == 3     \* longest array the caller builds

GetSnapshots ==
  /\ lastOp' = "getSnapshots"
  /\ returned' = [i \in 1..Len(snapshots) |-> snapshots[i].serial]
  /\ NoOutput
  /\ UNCHANGED <<constVars, pageVars, nativeVars, slotVars, listeners, timers, domVars,
                 reduxVars, detVars, taken, cleanedUp, expected>>

\* what the caller's code leaves alone whatever it does to the array
CallerFrame ==
  UNCHANGED <<constVars, pageVars, nativeVars, slotVars, listeners, timers, domVars,
              reduxVars, reportInterval, isRunning, obsVars, taken, cleanedUp, expected>>

\* result.push(obj): obj is an object the caller made (serial 0)
CallerPush ==
  /\ lastOp' = "caller"
  /\ returned' = Append(returned, 0)
  /\ UNCHANGED snapshots
  /\ CallerFrame

\* result.pop()
CallerPop ==
  /\ returned # <<>>
  /\ lastOp' = "caller"
  /\ returned' = SubSeq(returned, 1, Len(returned) - 1)
  /\ UNCHANGED snapshots
  /\ CallerFrame

\* the history after a write of h to the heapUsed field of the object ref
WrittenHistory(hist, ref, h) ==
  [j \in 1..Len(hist) |->
     IF hist[j].serial = ref THEN [hist[j] EXCEPT !.memory.heapUsed = h] ELSE hist[j]]

\* result[i].memory.heapUsed = h
CallerWrite(i, h) ==
  /\ i \in 1..Len(returned)
  /\ lastOp' = "caller"
  /\ snapshots' = WrittenHistory(snapshots, returned[i], h)
  /\ UNCHANGED returned
  /\ CallerFrame

InitCaller == \E e \in {Chrome, Firefox} : Constructed(e, AllEnabled)

NextCaller ==
  \/ taken < MaxCycles /\ GenerateReport
  \/ GetSnapshots
  \/ Len(returned) < MaxReturned /\ CallerPush
  \/ CallerPop
  \/ \E i \in 1..MaxReturned : CallerWrite(i, 0)
  \/ PageAllocate(112 * MB)

SpecCaller == InitCaller /\ [][NextCaller]_vars

\* C13: no step of the caller on the array getSnapshots() returned (pushing,
\* popping, writing a field of an element) changes the detector's history,
\* and a snapshot that stays in the history keeps the value it was created
\* with.
C13_HistoryIsolated ==
  [][/\ lastOp' = "caller" => snapshots' = snapshots
     /\ \A i \in 1..Len(snapshots), j \in 1..Len(snapshots') :
          snapshots[i].serial = snapshots'[j].serial => snapshots[i] = snapshots'[j]]_vars

---------------------------------------------------------------------------
(* Timer specification: the page sets timers in batches of the sizes       *)
(* around the two thresholds, the clock passes the five-minute age, and    *)
(* the detector is started, stopped and asked for reports in between.      *)

IntervalBatches == {20, 21, 25, 101}

TimeoutBatches == {1, 10, 11, 51}

InitTimers == Constructed(Chrome, AllEnabled)

NextTimers ==
  \/ taken < MaxCycles /\ Start
  \/ Stop
  \/ taken < MaxCycles /\ GenerateReport
  \/ \E n \in IntervalBatches : PageSetTimer("interval", n)
  \/ \E n \in TimeoutBatches : PageSetTimer("timeout", n)
  \/ \E id \in 1..MaxTimerId : TimeoutFires(id)
  \/ now < OldTimerAgeMs /\ Tick(OldTimerAgeMs)
  \/ now > OldTimerAgeMs /\ now < OldTimerAgeMs + MaxNow /\ Tick(1)

SpecTimers == InitTimers /\ [][NextTimers]_vars

\* the suspects of the timer category in the latest report
TimerSuspects == SelectSeq(lastReport[1].leakSuspects, LAMBDA s : s.type = "timer")

IntervalSuspects ==
  SelectSeq(TimerSuspects, LAMBDA s : s.description.text = "active intervals detected")

\* repeating timers the page has set; the page clears none in SpecTimers
HostIntervals ==
  Cardinality({id \in DOMAIN nativeTimers :
                 nativeTimers[id].type = "interval" /\ nativeTimers[id].callback = "page"})

\* C14: after the page has set n repeating timers and cleared none, the
\* report of generateReport() has exactly one repeating-timer suspect when
\* n > 20 and none when n <= 20; the suspect is critical when n > 100 and
\* medium otherwise, and its magnitude is n.
C14_IntervalSuspectCountsHost ==
  (lastOp = "generateReport" /\ lastReport # <<>>) =>
    IF HostIntervals > IntervalThreshold
    THEN /\ Len(IntervalSuspects) = 1
         /\ IntervalSuspects[1].severity =
              (IF HostIntervals > IntervalCritical THEN "critical" ELSE "medium")
         /\ IntervalSuspects[1].count = HostIntervals
    ELSE IntervalSuspects = <<>>

---------------------------------------------------------------------------
(* C20: the two rules of the timer tracker.                                *)

\* handles in the timer registry acquired more than five minutes ago
AgedHandles == Cardinality({id \in DOMAIN timers : timers[id].created + OldTimerAgeMs < now})

\* handles in the timer registry that are repeating
RepeatingHandles == Cardinality({id \in DOMAIN timers : timers[id].type = "interval"})

\* severity, magnitude and wording of a suspect
Finding(s) == <<s.severity, s.count, s.description.n, s.description.text>>

\* C20: in every report the timer suspects are: one old-timer suspect iff
\* more than 10 handles of the registry were acquired more than 5 minutes
\* ago (critical if more than 50, else high), followed by one
\* repeating-timer suspect iff more than 20 handles of the registry are
\* repeating; each rule decides on its own count, and when both hold both
\* suspects are in the same report, old-timer first.
C20_TimerRulesIndependent ==
  (lastOp = "generateReport" /\ lastReport # <<>>) =>
    [i \in 1..Len(TimerSuspects) |-> Finding(TimerSuspects[i])] =
      (IF AgedHandles > 10
       THEN <<<<IF AgedHandles > 50 THEN "critical" ELSE "high", AgedHandles, AgedHandles,
                "timers running for more than 5 minutes">>>>
       ELSE <<>>)
      \o
      (IF RepeatingHandles > 20
       THEN <<<<IF RepeatingHandles > 100 THEN "critical" ELSE "medium", RepeatingHandles,
                RepeatingHandles, "active intervals detected">>>>
       ELSE <<>>)

\* a report with both suspects, decided on different counts
C20_Witness ==
  /\ lastOp = "generateReport" /\ lastReport # <<>>
  /\ Len(TimerSuspects) = 2
  /\ TimerSuspects[1].description.text = "timers running for more than 5 minutes"
  /\ TimerSuspects[2].description.text = "active intervals detected"
  /\ TimerSuspects[1].count > TimerSuspects[2].count
  /\ \E id \in DOMAIN timers : timers[id].type = "timeout"

---------------------------------------------------------------------------
(* Advice specification: the page leaks resources of several categories,   *)
(* the clock passes the five-minute age so that one category has two       *)
(* suspects, and reports are requested in between.                         *)

InitAdvice == Constructed(Chrome, AllEnabled)

NextAdvice ==
  \/ taken < MaxCycles /\ GenerateReport
  \/ PageAddClosures("button", "click")
  \/ PageSetTimer("interval", IntervalBatch)
  \/ now <= OldTimerAgeMs /\ Tick(OldTimerAgeMs + 1)
  \/ nodeCount < MaxNodeCount /\ PageMutation(DomThreshold + 1, 1, DetachedBatch, TRUE)
  \/ SelectorCountOf("selUser") < SelectorBatch
       /\ TrackSelectorUsage("selUser", SelectorBatch)
  \/ PageAllocate(112 * MB)

SpecAdvice == InitAdvice /\ [][NextAdvice]_vars

LeakTypes ==
  {"event-listener", "timer", "dom-reference", "detached-dom", "closure",
   "redux-subscription", "redux-selector"}

\* the categories that occur in the suspect list of the latest report
CategoriesPresent ==
  {lastReport[1].leakSuspects[i].type : i \in 1..Len(lastReport[1].leakSuspects)}

\* C15: the recommendation list of a report holds exactly one advice string
\* for each category that occurs among its suspects, none for a category
\* that does not occur, and no string twice, however many suspects share a
\* category; distinct categories have distinct advice.
C15_AdvicePerCategory ==
  /\ \A a \in LeakTypes, b \in LeakTypes : Recommendation(a) = Recommendation(b) => a = b
  /\ lastReport # <<>> =>
       LET recs == lastReport[1].recommendations
       IN /\ Len(recs) = Cardinality(CategoriesPresent)
          /\ {recs[i] : i \in 1..Len(recs)} = {Recommendation(t) : t \in CategoriesPresent}
          /\ \A i \in 1..Len(recs), j \in 1..Len(recs) : recs[i] = recs[j] => i = j
          /\ CategoriesPresent \subseteq LeakTypes

\* a report with two suspects of the timer category and suspects of other
\* categories
C15_Witness ==
  /\ lastReport # <<>>
  /\ Cardinality({i \in 1..Len(lastReport[1].leakSuspects) :
                    lastReport[1].leakSuspects[i].type = "timer"}) = 2
  /\ Cardinality(CategoriesPresent) >= 3
  /\ Len(lastReport[1].recommendations) = Cardinality(CategoriesPresent)

---------------------------------------------------------------------------
(* C16, C17: generateReport() on demand and start().                       *)

\* the history after one snapshot was appended to hist: the entries of hist
\* (without the oldest when hist was full) followed by a new last entry
AppendedTo(hist, after) ==
  /\ after # <<>>
  /\ SubSeq(after, 1, Len(after) - 1) =
       (IF Len(hist) < HistoryCapacity THEN hist ELSE Tail(hist))

---------------------------------------------------------------------------
(* Schedule specification: the lifecycle operations in a browser page,     *)
(* with the platform's event loop running the interval callback again and  *)
(* again for as long as the interval is scheduled (weak fairness of the    *)
(* cycle; the history counter bounds the run).                             *)

InitLive == \E e \in {Chrome, Firefox}, c \in FlagChoices : Constructed(e, c)

CycleStep == taken < MaxTaken /\ PeriodicCycle

NextLive ==
  \/ taken < MaxTaken /\ Start
  \/ Stop
  \/ Cleanup
  \/ taken < MaxTaken /\ GenerateReport
  \/ CycleStep

SpecLive == InitLive /\ [][NextLive]_vars /\ WF_vars(CycleStep)

---------------------------------------------------------------------------
(* C19: the listener registry holds no empty entry.                        *)

\* C19: in every reachable state the listener registry has one entry per
\* target, every target entry has at least one event kind, and every event
\* kind maps to a non-empty set of listeners: a release that removes the
\* last listener of a kind removes the kind, and the target with its last
\* kind.
C19_NoEmptyEntries ==
  /\ \A i \in 1..Len(listeners) :
       /\ DOMAIN listeners[i].types # {}
       /\ \A k \in DOMAIN listeners[i].types : listeners[i].types[k] # {}
  /\ \A i \in 1..Len(listeners), j \in 1..Len(listeners) :
       listeners[i].target = listeners[j].target => i = j
  /\ GetActiveListeners(listeners) = 0 => listeners = <<>>

\* the latest call released the only click listener of a target that keeps
\* listeners of another kind: the snapshot counted one listener more
C19_Witness ==
  /\ shimCall # <<>>
  /\ shimCall[1].op = "removeEventListener"
  /\ Len(snapshots) = 1
  /\ snapshots[1].counts.eventListeners = GetActiveListeners(listeners) + 1
  /\ HasTarget(listeners, "button")
  /\ "click" \notin DOMAIN TypesOf(listeners, "button")

---------------------------------------------------------------------------
(* Store specification: the page subscribes to a patched store in loops,   *)
(* dropping the unsubscribe functions, the clock approaches and passes the *)
(* ten-minute age, and reports are requested in between.  The page starts  *)
(* a further loop only while few subscriptions are left behind.            *)

SubscriptionBatches == {10, 11, 51, 201}

\* n calls of store.subscribe(f) on store s, one per millisecond; the page
\* drops the unsubscribe functions it is given
PageSubscribeEach(s, f, n) ==
  /\ lastOp' = "page"
  /\ now' = now + n
  /\ IF storeSubscribe[s] = "shim"
     THEN /\ storeSubscriptions' =
               [id \in DOMAIN storeSubscriptions
                         \cup {SubscriptionId(now + i, 0) : i \in 0..(n - 1)} |->
                  IF id \in DOMAIN storeSubscriptions
                       /\ id \notin {SubscriptionId(now + i, 0) : i \in 0..(n - 1)}
                  THEN storeSubscriptions[id]
                  ELSE [subscriber |-> f, created |-> id \div RandomGrain]]
          /\ expected' = [expected EXCEPT !.store = @ + n]
     ELSE UNCHANGED <<storeSubscriptions, expected>>
  /\ Quiet
  /\ shimCall' =
       Forwarded("subscribe", s, [listener |-> f], storeSubscribe[s],
                 <<Invocation("subscribe", s, [listener |-> f])>>,
                 Value("unsubscribe", 0),
                 IF storeSubscribe[s] = "shim"
                 THEN Value("wrapped unsubscribe", 0)
                 ELSE Value("unsubscribe", 0))
  /\ UNCHANGED <<constVars, returned, usedHeap, domCount, nativeVars, slotVars, listeners, timers,
                 domVars, selectorCalls, originalStoreSubscribe, storeRef, handles, detVars,
                 taken, cleanedUp>>

InitStore == Constructed(ChromeWithStore, AllEnabled)

NextStore ==
  \/ taken < MaxCycles /\ GenerateReport
  \/ \E n \in SubscriptionBatches :
       /\ GetActiveSubscriptions(storeSubscriptions) <= OldSubscriptionThreshold + 1
       /\ PageSubscribeEach("storeA", "render", n)
  \/ now < OldSubscriptionAgeMs /\ Tick(OldSubscriptionAgeMs - 5)
  \/ now > OldSubscriptionAgeMs /\ now < 2 * OldSubscriptionAgeMs /\ Tick(OldSubscriptionAgeMs)

SpecStore == InitStore /\ [][NextStore]_vars

\* the store suspects of the latest report with the given wording
StoreSuspects(text) ==
  SelectSeq(lastReport[1].leakSuspects,
            LAMBDA s : s.type = "redux-subscription" /\ s.description.text = text)

\* subscriptions in the registry created more than ten minutes ago
AgedSubscriptions ==
  Cardinality({id \in DOMAIN storeSubscriptions :
                 storeSubscriptions[id].created + OldSubscriptionAgeMs < now})

\* C21: a report has one subscription-count suspect iff the registry holds
\* more than 50 subscriptions (critical if more than 200, else high), and
\* one old-subscription suspect iff more than 10 subscriptions of the
\* registry were created more than 10 minutes ago (critical if more than
\* 50, else medium); each rule decides on its own count.
C21_StoreRulesIndependent ==
  (lastOp = "generateReport" /\ lastReport # <<>>) =>
    LET live == Cardinality(DOMAIN storeSubscriptions)
        byCount == StoreSuspects("active Redux store subscriptions detected")
        byAge == StoreSuspects("Redux subscriptions active for more than 10 minutes")
    IN /\ Len(byCount) = (IF live > 50 THEN 1 ELSE 0)
       /\ live > 50 =>
            Finding(byCount[1]) =
              <<IF live > 200 THEN "critical" ELSE "high", live, live,
                "active Redux store subscriptions detected">>
       /\ Len(byAge) = (IF AgedSubscriptions > 10 THEN 1 ELSE 0)
       /\ AgedSubscriptions > 10 =>
            Finding(byAge[1]) =
              <<IF AgedSubscriptions > 50 THEN "critical" ELSE "medium", AgedSubscriptions,
                AgedSubscriptions, "Redux subscriptions active for more than 10 minutes">>

\* a report with an old-subscription suspect and no count suspect
C21_Witness ==
  /\ lastOp = "generateReport" /\ lastReport # <<>>
  /\ StoreSuspects("active Redux store subscriptions detected") = <<>>
  /\ Len(StoreSuspects("Redux subscriptions active for more than 10 minutes")) = 1
  /\ AgedSubscriptions < Cardinality(DOMAIN storeSubscriptions)

---------------------------------------------------------------------------
(* Selector specification: the page reports calls of two selectors, one    *)
(* at a time when a count stands at a threshold and in runs otherwise,     *)
(* the clock approaches and passes the sixty-second window, and reports    *)
(* are requested in between.                                               *)

SelectorRuns == {1000, 4000}

\* highest count each selector is taken to
SelectorLimit(name) == IF name = "selUser" THEN SelectorCritical + 1 ELSE SelectorThreshold + 1

InitSelectors == Constructed(Chrome, AllEnabled)

NextSelectors ==
  \/ taken < MaxStarts /\ GenerateReport
  \/ \E name \in {"selUser", "selCart"} :
       /\ SelectorCountOf(name) \in {0, SelectorThreshold, SelectorCritical}
       /\ TrackSelectorUsage(name, 1)
  \/ \E name \in {"selUser", "selCart"}, n \in SelectorRuns :
       /\ SelectorCountOf(name) + n <= SelectorLimit(name)
       /\ TrackSelectorUsage(name, n)
  \/ now < SelectorWindowMs /\ Tick(SelectorWindowMs - 1)
  \/ now >= SelectorWindowMs /\ now < SelectorWindowMs + MaxNow /\ Tick(1)

SpecSelectors == InitSelectors /\ [][NextSelectors]_vars

\* the statistics the registry keeps for a name, none before its first call
StatsOf(sels, name) ==
  {<<sels[i].count, sels[i].lastCalled>> : i \in {j \in 1..Len(sels) : sels[j].name = name}}

NamesOf(sels) == {sels[i].name : i \in 1..Len(sels)}

\* the selector suspects of the latest report, as <<name, severity, count>>
SelectorSuspects ==
  LET found == SelectSeq(lastReport[1].leakSuspects, LAMBDA s : s.type = "redux-selector")
  IN [i \in 1..Len(found) |-> <<found[i].description.arg, found[i].severity, found[i].count>>]

\* C22: a call of trackSelectorUsage(name) adds one to the count of that
\* name (a run of n calls adds n), sets its last-call time to now and
\* leaves every other name alone; and a report has a selector suspect for a
\* name iff its count exceeds 1000 and its last call was less than 60
\* seconds ago (critical if the count exceeds 5000, else high), one suspect
\* per such name.
C22_SelectorRule ==
  /\ [][lastOp' = "trackSelectorUsage" =>
          \E name \in {"selUser", "selCart"}, n \in SelectorRuns \cup {1} :
            /\ StatsOf(selectorCalls', name) =
                 {<<(IF name \in NamesOf(selectorCalls)
                     THEN (CHOOSE st \in StatsOf(selectorCalls, name) : TRUE)[1] ELSE 0) + n,
                    now>>}
            /\ \A other \in NamesOf(selectorCalls') \cup NamesOf(selectorCalls) :
                 other # name => StatsOf(selectorCalls', other) = StatsOf(selectorCalls, other)
            /\ Len(selectorCalls') = Cardinality(NamesOf(selectorCalls'))]_vars
  /\ []((lastOp = "generateReport" /\ lastReport # <<>>) =>
          /\ {SelectorSuspects[i] : i \in 1..Len(SelectorSuspects)} =
               {<<selectorCalls[i].name,
                  IF selectorCalls[i].count > 5000 THEN "critical" ELSE "high",
                  selectorCalls[i].count>> :
                  i \in {j \in 1..Len(selectorCalls) :
                           /\ selectorCalls[j].count > 1000
                           /\ now - selectorCalls[j].lastCalled < 60000}}
          /\ \A i \in 1..Len(SelectorSuspects), j \in 1..Len(SelectorSuspects) :
               SelectorSuspects[i][1] = SelectorSuspects[j][1] => i = j)

\* a report with a suspect for one selector and none for another whose
\* count is above the threshold but whose last call is outside the window
C22_Witness ==
  /\ lastOp = "generateReport" /\ lastReport # <<>>
  /\ Len(SelectorSuspects) = 1
  /\ \E i \in 1..Len(selectorCalls) :
       /\ selectorCalls[i].count > SelectorThreshold
       /\ selectorCalls[i].name # SelectorSuspects[1][1]
       /\ now - selectorCalls[i].lastCalled >= SelectorWindowMs

---------------------------------------------------------------------------
(* Two detectors.  The page constructs a second detector B after this one  *)
(* (A); B's listener and timer trackers save whatever the global slots     *)
(* hold at that moment and install their own shims ("shimB").              *)

\* variant: trackers that save the platform's functions
SavedByPlatform(c) ==
  [slot \in TrackedSlots |-> IF SlotTracked(c, slot) THEN "native" ELSE "none"]

\* the originals B's tracker constructors save
SavedBySecond(c) ==
  [slot \in TrackedSlots |-> IF SlotTracked(c, slot) THEN globals[slot] ELSE "none"]

\* what only the second detector's constructor and cleanup leave alone
SecondFrame ==
  UNCHANGED <<env, config, returned, pageVars, nativeVars, storeSubscribe, originals, listeners,
              timers, domVars, reduxVars, detVars, obsVars, taken, cleanedUp, expected>>

\* new MemoryLeakDetector(c) while this detector exists
ConstructSecond(c) ==
  /\ ~second.constructed
  /\ lastOp' = "construct second"
  /\ second' = [constructed |-> TRUE, cleaned |-> FALSE, config |-> c,
                originals |-> SavedBySecond(c)]
  /\ globals' = [slot \in DOMAIN globals |->
                   IF slot \in TrackedSlots /\ SlotTracked(c, slot) THEN "shimB" ELSE globals[slot]]
  /\ SecondFrame

\* B.cleanup(): B's trackers put back what they saved
CleanupSecond ==
  /\ second.constructed
  /\ lastOp' = "cleanup second"
  /\ second' = [second EXCEPT !.cleaned = TRUE]
  /\ globals' = [slot \in DOMAIN globals |->
                   IF slot \in TrackedSlots /\ SlotTracked(second.config, slot)
                   THEN second.originals[slot] ELSE globals[slot]]
  /\ SecondFrame

InitTwo == \E e \in {Chrome, Firefox, Headless}, c \in FlagChoices : Constructed(e, c)

NextTwo ==
  \/ \E c \in FlagChoices : ConstructSecond(c)
  \/ CleanupSecond
  \/ Cleanup

SpecTwo == InitTwo /\ [][NextTwo]_vars

\* the slots whose tracker exists in both detectors
SharedSlots ==
  {slot \in TrackedSlots : SlotTracked(config, slot) /\ SlotTracked(second.config, slot)}

\* C23: with B constructed after A, for every entry point both track: B's
\* saved original is A's shim; and once both have been cleaned up the slot
\* holds the platform's function if A was cleaned up last, and A's shim if
\* B was cleaned up last.
C23_UninstallOrder ==
  \A slot \in SharedSlots :
    /\ (second.constructed /\ ~cleanedUp) => second.originals[slot] = "shim"
    /\ (second.constructed /\ second.originals[slot] = "shim" /\ second.cleaned /\ cleanedUp) =>
         globals[slot] = (IF lastOp = "cleanup second" THEN "shim" ELSE "native")

\* A was cleaned up, then B: A's shims are the global entry points
C23_Witness ==
  /\ lastOp = "cleanup second"
  /\ cleanedUp /\ second.cleaned
  /\ SharedSlots = TrackedSlots
  /\ \A slot \in TrackedSlots : globals[slot] = "shim" /\ originals[slot] = "native"

---------------------------------------------------------------------------
(* The store-tooling hook.  The page creates a store with                  *)
(* window.__REDUX_DEVTOOLS_EXTENSION__(...)(createStore)(reducer, state).  *)
(* The original hook returns an enhancer that builds the store with the    *)
(* tooling attached; the tracker's replacement calls the original hook,    *)
(* drops the enhancer it returns, builds the store with createStore alone  *)
(* and hands it to patchStore.                                             *)

StoreIndex(s) == IF s = "storeA" THEN 1 ELSE 2

\* the store the original hook's enhancer builds
StoreOfEnhancer(s) == Value("store with tooling", StoreIndex(s))

\* the store the replacement's inner function builds and returns
StoreOfWrapper(s) == Value("store without tooling", StoreIndex(s))

\* s is a store object that does not exist yet
Fresh(s) ==
  /\ s # env.windowStore
  /\ s # storeRef
  /\ \A i \in 1..Len(handles) : handles[i].store # s

CreateStoreThroughHook(s) ==
  /\ globals.devtools # "absent"
  /\ Fresh(s)
  /\ lastOp' = "createStore"
  /\ IF globals.devtools = "wrapped"
     THEN /\ storeRef' = PatchedRef(s)
          /\ originalStoreSubscribe' = PatchedOriginal(s)
          /\ storeSubscribe' = PatchedSubscribe(s)
          /\ shimCall' = Forwarded("createStore", "window", [store |-> s], "shim",
                                   <<Invocation("devtools", "window", [store |-> s])>>,
                                   StoreOfEnhancer(s), StoreOfWrapper(s))
     ELSE /\ UNCHANGED <<storeRef, originalStoreSubscribe, storeSubscribe>>
          /\ shimCall' = Forwarded("createStore", "window", [store |-> s], "native",
                                   <<Invocation("devtools", "window", [store |-> s])>>,
                                   StoreOfEnhancer(s), StoreOfEnhancer(s))
  /\ Quiet
  /\ UNCHANGED <<constVars, returned, pageVars, nativeVars, globals, originals, listeners, timers,
                 domVars, storeSubscriptions, selectorCalls, handles, detVars,
                 taken, cleanedUp, expected>>

ChromeWithHook == [Chrome EXCEPT !.devtools = TRUE]

InitHook == \E e \in {ChromeWithHook, ChromeWithStore}, c \in FlagChoices : Constructed(e, c)

NextHook ==
  \/ \E s \in Stores : CreateStoreThroughHook(s)
  \/ \E s \in Stores : PatchReduxStore(s)
  \/ \E s \in Stores : PageSubscribe(s, "render", 0)
  \/ \E i \in 1..MaxHandles : PageUnsubscribe(i)
  \/ Cleanup

SpecHook == InitHook /\ [][NextHook]_vars

\* C24: a store created through the replaced hook is discovered: from its
\* creation on its subscribe is the tracker's shim, so that subscriptions
\* made on it are counted.
C24_CreatedStoreDiscovered ==
  (lastOp = "createStore" /\ shimCall[1].shim) =>
    /\ storeRef = shimCall[1].args.store
    /\ storeSubscribe[shimCall[1].args.store] = "shim"

\* C25: a store created through the replaced hook is the store the original
\* hook's enhancer would have built.
C25_HookEffectKept ==
  (lastOp = "createStore" /\ shimCall[1].shim) => shimCall[1].returned = shimCall[1].result

\* C28: once the store tracker has patched a store (found at construction,
\* created through the hook, or given to patchStore) it never patches
\* another: storeRef and the saved subscribe stay as they are, patchStore
\* changes nothing, only the patched store can carry the shim, and a
\* subscription on any other store is not counted; cleanup() does not undo
\* this.
C28_OneStorePerTracker ==
  /\ [][storeRef # "undefined" =>
          /\ storeRef' = storeRef
          /\ originalStoreSubscribe' = originalStoreSubscribe
          /\ lastOp' \in {"patchReduxStore", "createStore"} =>
               UNCHANGED <<storeSubscribe, storeSubscriptions>>
          /\ \A s \in Stores \ {storeRef} :
               (lastOp' = "page" /\ shimCall' # <<>> /\ shimCall'[1].op = "subscribe"
                  /\ shimCall'[1].receiver = s) =>
                 (~shimCall'[1].shim /\ storeSubscriptions' = storeSubscriptions)]_vars
  /\ [](\A s \in Stores : storeSubscribe[s] = "shim" => s = storeRef)

\* after cleanup() a subscription on another store than the patched one
C28_Witness ==
  /\ cleanedUp
  /\ storeRef = "storeA"
  /\ lastOp = "page"
  /\ shimCall # <<>>
  /\ shimCall[1].op = "subscribe" /\ shimCall[1].receiver = "storeB"
  /\ storeSubscriptions = EmptyMap
  /\ \A s \in Stores : storeSubscribe[s] = "native"

---------------------------------------------------------------------------
(* The detector's own interval among the page's timers: start() and stop() *)
(* go through globalThis.setInterval / clearInterval like any other caller.*)

InitOwnTimer == \E e \in {Chrome, Headless}, c \in FlagChoices : Constructed(e, c)

NextOwnTimer ==
  \/ Start
  \/ Stop
  \/ Cleanup
  \/ \E type \in {"timeout", "interval"} : PageSetTimer(type, 1)
  \/ \E type \in {"timeout", "interval"}, id \in 0..MaxTimerId : PageClearTimer(type, id)
  \/ \E id \in 1..MaxTimerId : TimeoutFires(id)

SpecOwnTimer == InitOwnTimer /\ [][NextOwnTimer]_vars

\* the registry entries whose callback is the detector's cycle
OwnHandles == {id \in DOMAIN timers : id \in DOMAIN nativeTimers /\ nativeTimers[id].callback = "cycle"}

\* a call of the installed clearTimeout / clearInterval that just returned
ClearCalled(call) == call # <<>> /\ call[1].op \in {"clearTimeout", "clearInterval"}

\* C26 as stated: with timer tracking enabled, whenever the detector is
\* running the registry holds exactly one handle of the detector, a
\* repeating one, and none when it is not running.
C26_OwnHandleWhileRunning ==
  config.timer =>
    IF isRunning
    THEN /\ Cardinality(OwnHandles) = 1
         /\ \A id \in OwnHandles : timers[id].type = "interval"
    ELSE OwnHandles = {}

\* C26: with timer tracking enabled and before cleanup(), the interval
\* entry points are the shims; a start() that completes adds exactly one
\* entry to the registry, the repeating handle it keeps in reportInterval,
\* raising the active and repeating counts by one; the entry stays until
\* stop() or cleanup() clears it through the shim, or the page itself
\* clears that handle.  A start() that throws schedules nothing though it
\* leaves the detector running, and after cleanup() start() and stop() use
\* the platform's functions and the registry does not change.  The
\* registry never holds more than one handle of the detector.
C26_OwnHandleCounted ==
  /\ []((config.timer /\ ~cleanedUp) =>
          globals.setInterval = "shim" /\ globals.clearInterval = "shim")
  /\ [](cleanedUp => globals.setInterval = "native" /\ globals.clearInterval = "native")
  /\ [](Cardinality(OwnHandles) <= 1 /\ OwnHandles \subseteq {reportInterval})
  /\ []((config.timer /\ ~cleanedUp /\ reportInterval # 0) =>
          /\ isRunning
          /\ reportInterval \in DOMAIN timers <=> reportInterval \in DOMAIN nativeTimers
          /\ reportInterval \in DOMAIN timers => timers[reportInterval].type = "interval")
  /\ [][(lastOp' = "start" /\ ~isRunning) =>
          /\ isRunning'
          /\ IF threw'
             THEN timers' = timers /\ reportInterval' = reportInterval
             ELSE /\ reportInterval' \notin DOMAIN timers
                  /\ IF config.timer /\ ~cleanedUp
                     THEN /\ timers' = MapSet(timers, reportInterval',
                                              [type |-> "interval", created |-> now])
                          /\ OwnHandles' = {reportInterval'}
                          /\ GetActiveTimers(timers') = GetActiveTimers(timers) + 1
                          /\ TotalIntervals(timers') = TotalIntervals(timers) + 1
                     ELSE timers' = timers]_vars
  /\ [][(lastOp' = "stop" /\ isRunning) =>
          /\ ~isRunning'
          /\ reportInterval' = 0
          /\ OwnHandles' = {}
          /\ timers' = IF config.timer /\ ~cleanedUp
                       THEN MapDelete(timers, reportInterval) ELSE timers
          /\ \A id \in DOMAIN timers' : timers'[id] = timers[id]]_vars

\* the detector running beside a repeating timer of the page: two entries,
\* one of them its own
C26_Witness ==
  /\ config.timer
  /\ isRunning
  /\ lastOp = "start"
  /\ OwnHandles = {reportInterval}
  /\ GetActiveTimers(timers) = 2
  /\ TotalIntervals(timers) = 2

\* C27: a registry entry goes away only in cleanup(), in stop() clearing the
\* detector's own handle, or in a call of the intercepted clearTimeout or
\* clearInterval with that handle; such a call removes the handle whatever
\* its kind and removes nothing for a falsy handle; a timer that fires
\* leaves the registry, and so the active count, as it was.
C27_FiredTimerStaysCounted ==
  /\ [][\A id \in DOMAIN timers :
          id \notin DOMAIN timers' =>
            \/ lastOp' \in {"cleanup", "cleanup again"}
            \/ lastOp' = "stop" /\ id = reportInterval
            \/ /\ lastOp' = "page"
               /\ ClearCalled(shimCall')
               /\ shimCall'[1].shim
               /\ shimCall'[1].args.id = id]_vars
  /\ [][(lastOp' = "page" /\ ClearCalled(shimCall')) =>
          timers' = IF shimCall'[1].shim /\ shimCall'[1].args.id # 0
                    THEN MapDelete(timers, shimCall'[1].args.id)
                    ELSE timers]_vars
  /\ [][(lastOp' = "page" /\ shimCall' = <<>> /\ nativeTimers' # nativeTimers) =>
          /\ timers' = timers
          /\ GetActiveTimers(timers') = GetActiveTimers(timers)]_vars

\* a one-shot timer has fired and is still counted
C27_Witness ==
  /\ lastOp = "page"
  /\ shimCall = <<>>
  /\ \E id \in DOMAIN timers :
       /\ timers[id].type = "timeout"
       /\ id \notin DOMAIN nativeTimers
  /\ GetActiveTimers(timers) >= 1

=============================================================================
